---- MODULE Spec2Model ----
(***************************************************************************)
(* Inventory snapshot pipeline of chaeban-business-automation:             *)
(*   - the Firestore writer (writeInventorySnapshot with its               *)
(*     reconciliation markCurrentItemsAsArchived, getCurrentInventoryData) *)
(*     over a model of the document store;                                 *)
(*   - the SOS API client (fetchAllInventoryItems, fetchInventoryPage).    *)
(* Strings that the code inspects character by character (item ids) are    *)
(* sequences of one-character strings; timestamps are milliseconds.        *)
(***************************************************************************)
EXTENDS Integers, Sequences, FiniteSets, TLC

(***************************************************************************)
(* Bounds of the model.                                                    *)
(***************************************************************************)
\* longest item list handed to writeInventorySnapshot
MaxItems == 3
\* number of writeInventorySnapshot runs in one behaviour
MaxRuns == 2
\* the clock takes the values 0, TickMs, ..., MaxTick * TickMs
MaxTick == 2
TickMs == 500
\* SOS_CONFIG.BATCH_SIZE (config.js:44, 250 there), scaled so that a list of
\* MaxItems items is split into more than one chunk
BATCH_SIZE == 2
\* the literal 450 of markCurrentItemsAsArchived (firestoreWriter.js:283),
\* scaled so that the documents of the model fill more than one batch
ARCHIVE_BATCH_LIMIT == 1
\* most items the SOS server holds
MaxServerItems == 5
\* largest total the SOS server reports
MaxTotal == 9
\* SOS_CONFIG.PAGE_SIZE (config.js:38, 500 there), scaled so that the
\* server's items fill more than one page
PAGE_SIZE == 2
\* longest list of raw items drawn from RawPool
MaxRaw == 2
\* longest item list of a run that a dashboard request overlaps
MaxDashItems == 2
\* longest list handed to sortItemsForDisplay
MaxSort == 3

\* milliseconds per second: formatTimestampForId drops the milliseconds
MsPerSecond == 1000

\* SOS_CONFIG.CONCURRENT_REQUESTS and SOS_CONFIG.THROTTLE_WAIT_MS
CONCURRENT_REQUESTS == 3
THROTTLE_WAIT_MS == 30000

\* the dashboard's history window in days and its limit (index.js:142, 145)
HISTORY_DAYS == 7
HISTORY_LIMIT == 7
MsPerDay == 86400000

(***************************************************************************)
(* Strings and JavaScript values.                                          *)
(***************************************************************************)
Min(a, b) == IF a < b THEN a ELSE b

\* the characters of the model's strings, in code-point order
Alphabet == <<" ", "7", "a", "b">>

CharRank(c) == CHOOSE i \in 1..Len(Alphabet) : Alphabet[i] = c

RECURSIVE StrLess(_, _)
StrLess(s, t) ==
  IF t = <<>> THEN FALSE
  ELSE IF s = <<>> THEN TRUE
  ELSE IF Head(s) = Head(t) THEN StrLess(Tail(s), Tail(t))
  ELSE CharRank(Head(s)) < CharRank(Head(t))

RECURSIVE TrimLeft(_)
TrimLeft(s) == IF s # <<>> /\ Head(s) = " " THEN TrimLeft(Tail(s)) ELSE s

RECURSIVE TrimRight(_)
TrimRight(s) ==
  IF s # <<>> /\ s[Len(s)] = " " THEN TrimRight(SubSeq(s, 1, Len(s) - 1)) ELSE s

\* String.prototype.trim
Trim(s) == TrimRight(TrimLeft(s))

\* a JavaScript value that may stand in item_id: a string, a number (s is
\* its decimal text) or undefined
JsString(s) == [t |-> "string", s |-> s]
JsNumber(s) == [t |-> "number", s |-> s]
JsUndefined == [t |-> "undefined", s |-> <<>>]
\* an object that is neither a string nor a number
JsObject == [t |-> "object", s |-> <<>>]

\* JavaScript truthiness of such a value
Truthy(v) ==
  CASE v.t = "string" -> v.s # <<>>
    [] v.t = "number" -> v.s # <<"0">>
    [] v.t = "object" -> TRUE
    [] OTHER -> FALSE

\* a numeric field as the writer receives it: a number or undefined
NumField(n) == [t |-> "number", n |-> n]
NoNumField == [t |-> "undefined", n |-> 0]

\* parseFloat(x) || 0 on such a field: NaN and 0 both give 0
ParseFloatOrZero(v) == IF v.t = "number" THEN v.n ELSE 0

(***************************************************************************)
(* Functions as maps.                                                      *)
(***************************************************************************)
EmptyMap == [x \in {} |-> 0]

Put(f, k, v) == [x \in (DOMAIN f) \cup {k} |-> IF x = k THEN v ELSE f[x]]

\* Merge as set() would do it: the document is replaced by the fields
ReplaceDoc(doc, fields) == fields

\* DocumentReference.update: the named fields are replaced, the others kept
Merge(doc, fields) ==
  [f \in (DOMAIN doc) \cup (DOMAIN fields) |->
     IF f \in DOMAIN fields THEN fields[f] ELSE doc[f]]

RECURSIVE SortIds(_)
\* the ids of a set in document-id order, as a query returns them
SortIds(S) ==
  IF S = {} THEN <<>>
  ELSE LET m == CHOOSE x \in S : \A y \in S \ {x} : StrLess(x, y)
       IN <<m>> \o SortIds(S \ {m})

RECURSIVE SumSeq(_)
SumSeq(s) == IF s = <<>> THEN 0 ELSE Head(s) + SumSeq(Tail(s))

(***************************************************************************)
(* Items handed to the writer.                                             *)
(***************************************************************************)
IdA == <<"a">>
IdB == <<"b">>

Item(id, cost) == [item_id |-> id, cost_basis |-> cost]

\* the items the runs draw their lists from: two ids, one of them with two
\* costs, and an item whose item_id is a blank string
ItemPool ==
  { Item(JsString(IdA), NumField(1)),
    Item(JsString(IdA), NumField(2)),
    Item(JsString(IdB), NumField(2)),
    Item(JsString(<<" ">>), NoNumField) }

ItemLists == UNION { [1..n -> ItemPool] : n \in 0..MaxItems }

\* the times a run can read from the clock
Times == { k * TickMs : k \in 0..MaxTick }

(***************************************************************************)
(* The document store.                                                     *)
(*   cur      inventory/current/items/<id>                                 *)
(*   ptr      inventory/<current | snapshots | metadata>                   *)
(*   snapDocs inventory/snapshots/<timestampId>/<summary | items>          *)
(*   data     inventory/snapshots/<timestampId>/items/data/<id>            *)
(***************************************************************************)
EmptyDb ==
  [cur |-> EmptyMap, ptr |-> EmptyMap, snapDocs |-> EmptyMap, data |-> EmptyMap]

Sub(f, k) == IF k \in DOMAIN f THEN f[k] ELSE EmptyMap

\* the operations a WriteBatch holds
SetCur(id, doc) ==
  [kind |-> "set", coll |-> "cur", tsId |-> 0, id |-> id, doc |-> doc]
SetData(tsId, id, doc) ==
  [kind |-> "set", coll |-> "data", tsId |-> tsId, id |-> id, doc |-> doc]
UpdateCur(id, fields) ==
  [kind |-> "update", coll |-> "cur", tsId |-> 0, id |-> id, doc |-> fields]

\* ApplyOp with set() merging into the document as update() does
ApplyOpMerging(d, op) ==
  IF op.coll = "cur"
  THEN [d EXCEPT !.cur =
          Put(d.cur, op.id,
              IF op.id \in DOMAIN d.cur THEN Merge(d.cur[op.id], op.doc) ELSE op.doc)]
  ELSE [d EXCEPT !.data =
          Put(d.data, op.tsId, Put(Sub(d.data, op.tsId), op.id, op.doc))]

ApplyOp(d, op) ==
  IF op.coll = "cur"
  THEN [d EXCEPT !.cur =
          Put(d.cur, op.id,
              IF op.kind = "set" THEN op.doc ELSE Merge(d.cur[op.id], op.doc))]
  ELSE [d EXCEPT !.data =
          Put(d.data, op.tsId, Put(Sub(d.data, op.tsId), op.id, op.doc))]

RECURSIVE ApplyBatch(_, _)
ApplyBatch(d, ops) ==
  IF ops = <<>> THEN d ELSE ApplyBatch(ApplyOp(d, Head(ops)), Tail(ops))

\* an update of a document that does not exist makes the commit fail
CanCommit(d, ops) ==
  \A i \in 1..Len(ops) :
     (ops[i].kind = "update") => (ops[i].id \in DOMAIN d.cur)

\* Commit without atomicity: a failed commit has written the first half
CommitPartial(d, ops, ok) ==
  IF ok /\ CanCommit(d, ops) THEN ApplyBatch(d, ops)
  ELSE ApplyBatch(d, SubSeq(ops, 1, Len(ops) \div 2))

\* WriteBatch.commit: every operation of the batch or none
Commit(d, ops, ok) == IF ok /\ CanCommit(d, ops) THEN ApplyBatch(d, ops) ELSE d

(***************************************************************************)
(* writeInventorySnapshot and markCurrentItemsAsArchived.                  *)
(***************************************************************************)
\* the timestamp as an ISO string cut to the second, separators replaced:
\* one id for each second
formatTimestampForId(timestamp) == timestamp \div MsPerSecond

\* InvalidItemId without the test of the trimmed string
InvalidItemIdNoTrim(item) ==
  \/ ~Truthy(item.item_id)
  \/ item.item_id.t # "string"

\* the test of lines 123 and 146
InvalidItemId(item) ==
  \/ ~Truthy(item.item_id)
  \/ item.item_id.t # "string"
  \/ Trim(item.item_id.s) = <<>>

\* the document written for an item, in the snapshot and in the current view
TransformedItem(item, timestamp) ==
  [item_id |-> item.item_id,
   cost_basis |-> ParseFloatOrZero(item.cost_basis),
   item_status |-> "active",
   last_updated |-> timestamp]

\* Chunks with one item more in every chunk
ChunksOneMore(list) ==
  [k \in 1..((Len(list) + BATCH_SIZE) \div (BATCH_SIZE + 1)) |->
     SubSeq(list, (k - 1) * (BATCH_SIZE + 1) + 1, Min(k * (BATCH_SIZE + 1), Len(list)))]

\* the chunks of lines 82-85
Chunks(list) ==
  [k \in 1..((Len(list) + BATCH_SIZE - 1) \div BATCH_SIZE) |->
     SubSeq(list, (k - 1) * BATCH_SIZE + 1, Min(k * BATCH_SIZE, Len(list)))]

\* ChunkBatch without the writes of the current view
ChunkBatchSnapshotOnly(chunk, timestamp) ==
  [i \in 1..Len(chunk) |->
     SetData(formatTimestampForId(timestamp), chunk[i].item_id.s,
             TransformedItem(chunk[i], timestamp))]

\* the batch of one chunk: the snapshot writes, then the current-view writes
ChunkBatch(chunk, timestamp) ==
  [i \in 1..Len(chunk) |->
     SetData(formatTimestampForId(timestamp), chunk[i].item_id.s,
             TransformedItem(chunk[i], timestamp))]
  \o
  [i \in 1..Len(chunk) |->
     SetCur(chunk[i].item_id.s, TransformedItem(chunk[i], timestamp))]

NewItemIds(newItems) == { newItems[i].item_id : i \in 1..Len(newItems) }

\* ShouldArchive with the test inverted
ShouldArchivePresent(id, newItems) == JsString(id) \in NewItemIds(newItems)

\* the test of line 257
ShouldArchive(id, newItems) == JsString(id) \notin NewItemIds(newItems)

\* ItemsToArchive with every document of the current view
ItemsToArchiveAll(cur, newItems) == SortIds(DOMAIN cur)

\* the documents of the current view that are not in the new snapshot
ItemsToArchive(cur, newItems) ==
  SelectSeq(SortIds(DOMAIN cur), LAMBDA id : ShouldArchive(id, newItems))

ArchiveFields(timestamp) ==
  [item_status |-> "archived", archived_at |-> timestamp]

RECURSIVE ArchiveLoop(_, _, _, _)
\* the forEach of lines 274-293: a batch is closed when it holds
\* ARCHIVE_BATCH_LIMIT operations, the last one when it holds any
ArchiveLoop(docs, timestamp, batches, currentBatch) ==
  IF docs = <<>>
  THEN IF Len(currentBatch) > 0 THEN Append(batches, currentBatch) ELSE batches
  ELSE LET b == Append(currentBatch,
                       UpdateCur(Head(docs), ArchiveFields(timestamp)))
       IN IF Len(b) >= ARCHIVE_BATCH_LIMIT
          THEN ArchiveLoop(Tail(docs), timestamp, Append(batches, b), <<>>)
          ELSE ArchiveLoop(Tail(docs), timestamp, batches, b)

\* ArchiveBatches with every update in one batch
ArchiveBatchesInOne(cur, newItems, timestamp) ==
  LET docs == ItemsToArchive(cur, newItems)
  IN IF docs = <<>> THEN <<>>
     ELSE <<[i \in 1..Len(docs) |-> UpdateCur(docs[i], ArchiveFields(timestamp))]>>

ArchiveBatches(cur, newItems, timestamp) ==
  ArchiveLoop(ItemsToArchive(cur, newItems), timestamp, <<>>, <<>>)

CurrentPointer(list, timestamp) ==
  [last_updated |-> timestamp, item_count |-> Len(list), status |-> "active"]
SnapshotsPointer(timestamp) ==
  [last_snapshot |-> timestamp, total_snapshots |-> 1, status |-> "active"]
MetadataDoc(list, timestamp) ==
  [last_updated |-> timestamp, last_snapshot |-> timestamp,
   total_item_count |-> Len(list), status |-> "active"]
SnapshotItemsDoc(list, timestamp) ==
  [item_count |-> Len(list), timestamp |-> timestamp, status |-> "active"]
SnapshotSummary(list, timestamp) ==
  [total_items |-> Len(list), timestamp |-> timestamp]

SetPtr(d, name, doc) == [d EXCEPT !.ptr = Put(d.ptr, name, doc)]
SetSnapDoc(d, tsId, name, doc) ==
  [d EXCEPT !.snapDocs = Put(d.snapDocs, tsId, Put(Sub(d.snapDocs, tsId), name, doc))]

\* the batches of the chunk loop, in order
ChunkBatches(list, timestamp) ==
  [k \in DOMAIN Chunks(list) |-> ChunkBatch(Chunks(list)[k], timestamp)]

RECURSIVE ApplyBatches(_, _)
ApplyBatches(d, bs) ==
  IF bs = <<>> THEN d ELSE ApplyBatches(ApplyBatch(d, Head(bs)), Tail(bs))

\* the store after a run of writeInventorySnapshot in which no step fails
\* (every item_id of the list valid)
RunToSuccess(d, list, timestamp) ==
  LET tsId == formatTimestampForId(timestamp)
      d1 == ApplyBatches(d, ArchiveBatches(d.cur, list, timestamp))
      d2 == SetPtr(d1, "current", CurrentPointer(list, timestamp))
      d3 == SetPtr(d2, "snapshots", SnapshotsPointer(timestamp))
      d4 == SetPtr(d3, "metadata", MetadataDoc(list, timestamp))
      d5 == SetSnapDoc(d4, tsId, "items", SnapshotItemsDoc(list, timestamp))
      d6 == SetSnapDoc(d5, tsId, "summary", SnapshotSummary(list, timestamp))
  IN ApplyBatches(d6, ChunkBatches(list, timestamp))

\* the stores a behaviour starts from: the empty store, and the store two
\* earlier runs left, in which a is active and b is archived
SeedStores ==
  { EmptyDb,
    RunToSuccess(
      RunToSuccess(EmptyDb,
                   <<Item(JsString(IdA), NumField(1)), Item(JsString(IdB), NumField(2))>>,
                   0 - 2 * MsPerSecond),
      <<Item(JsString(IdA), NumField(1))>>,
      0 - MsPerSecond) }

Runners == {"r1", "r2"}
\* the runners of the specifications in which runs do not overlap
SeqRunners == {"r1"}

\* a run that has returned or thrown
Settled == {"done", "failed"}

VARIABLES
  db,        \* the document store
  clock,     \* the last time read, in milliseconds
  started,   \* the number of runs started
  pc,        \* each runner's position in writeInventorySnapshot
  items,     \* processedData.items of each runner's run
  ts,        \* summary.timestamp of each runner's run
  batches,   \* the archival batches a runner has still to commit
  chunkNo,   \* the index i of the chunk loop, from 1
  failStep,  \* the position at which a runner's run threw
  db0,       \* the store as it was when the runner's run began
  prev       \* the run before, where the next run repeats its item list

writerVars ==
  <<db, clock, started, pc, items, ts, batches, chunkNo, failStep, db0, prev>>

VARIABLES
  server,     \* what the SOS server holds and reports
  fpc,        \* the position of fetchAllInventoryItems
  page,       \* the state of each page's fetchInventoryPage task
  requests,   \* the number of requests sent for each page
  results,    \* the value each page's task resolved to
  slept,      \* the milliseconds each page's task slept after a 429
  allItems,   \* the array allItems
  totalPages, \* the constant totalPages
  chunkIx,    \* the index of the chunk of pages in progress, from 1
  ferror      \* the error fetchAllInventoryItems threw

fetchVars ==
  <<server, fpc, page, requests, results, slept, allItems, totalPages, chunkIx, ferror>>

VARIABLES
  txSrv,      \* what the process endpoint holds and how it wraps it
  txpc,       \* the position of fetchProcessTransactions
  txStart,    \* the variable start
  txAll,      \* the array allTransactions
  txRequests, \* the start offsets requested so far, in order
  txStatus,   \* the status of the last answer
  txError     \* the error fetchProcessTransactions threw

txVars == <<txSrv, txpc, txStart, txAll, txRequests, txStatus, txError>>

VARIABLES
  procpc,     \* the calls of processInventoryItems made so far
  procIn,     \* the arguments of the call
  procOut,    \* what the last call returned or threw
  procPrev    \* what the call before it returned or threw

procVars == <<procpc, procIn, procOut, procPrev>>

VARIABLES
  dpc,        \* the position of the dashboard handler
  dmethod,    \* req.method
  dcurrent,   \* currentData
  dhistory,   \* the number of calls of getInventoryHistory
  dresponses  \* the responses sent, in order

dashVars == <<dpc, dmethod, dcurrent, dhistory, dresponses>>

VARIABLES
  rpc,        \* the position of a trigger in executeInventorySnapshot
  rtrigger,   \* the trigger: the HTTP function or the scheduled one
  rraw,       \* what fetchAllInventoryItems returned or that it threw
  rproc,      \* what processInventoryItems returned or threw
  rout,       \* what the trigger sent or returned or threw, in order
  rdb0        \* the store as it was when the trigger fired

runVars == <<rpc, rtrigger, rraw, rproc, rout, rdb0>>

VARIABLES
  sortpc,     \* whether sortItemsForDisplay has been called
  sortIn,     \* its argument
  sortOut     \* what it returned

sortVars == <<sortpc, sortIn, sortOut>>

nonWriterVars == <<fetchVars, txVars, procVars, dashVars, runVars, sortVars>>
nonFetchVars == <<writerVars, txVars, procVars, dashVars, runVars, sortVars>>
nonTxVars == <<writerVars, fetchVars, procVars, dashVars, runVars, sortVars>>
nonProcVars == <<writerVars, fetchVars, txVars, dashVars, runVars, sortVars>>
nonRunVars == <<fetchVars, txVars, procVars, dashVars, sortVars>>
nonSortVars == <<writerVars, fetchVars, txVars, procVars, dashVars, runVars>>

NoPrev == [outcome |-> "none", step |-> "none", chunk |-> 0, items |-> <<>>,
           db0 |-> EmptyDb]

WriterInit ==
  /\ db \in SeedStores
  /\ clock = 0
  /\ started = 0
  /\ pc = [r \in Runners |-> "idle"]
  /\ items = [r \in Runners |-> <<>>]
  /\ ts = [r \in Runners |-> 0]
  /\ batches = [r \in Runners |-> <<>>]
  /\ chunkNo = [r \in Runners |-> 1]
  /\ failStep = [r \in Runners |-> "none"]
  /\ db0 = [r \in Runners |-> EmptyDb]
  /\ prev = NoPrev

\* the run of r ends: it returns (outcome "done") or throws
Finish(r, outcome, step) ==
  /\ pc' = [pc EXCEPT ![r] = outcome]
  /\ failStep' = [failStep EXCEPT ![r] = step]

Goto(r, next) ==
  /\ pc' = [pc EXCEPT ![r] = next]
  /\ UNCHANGED failStep

\* Begin with the current pointer written before the items are validated
BeginPointerFirst(r, list, t) ==
  /\ pc[r] = "idle"
  /\ started < MaxRuns
  /\ t >= clock
  /\ started' = started + 1
  /\ clock' = t
  /\ items' = [items EXCEPT ![r] = list]
  /\ ts' = [ts EXCEPT ![r] = t]
  /\ db0' = [db0 EXCEPT ![r] = db]
  /\ db' = SetPtr(db, "current", CurrentPointer(list, t))
  /\ IF Len(list) = 0 THEN Finish(r, "failed", "validate") ELSE Goto(r, "reconcile")
  /\ UNCHANGED <<batches, chunkNo, prev, nonWriterVars>>

\* lines 20-48: the run takes its item list and timestamp; an empty list throws
Begin(r, list, t) ==
  /\ pc[r] = "idle"
  /\ started < MaxRuns
  /\ t >= clock
  /\ started' = started + 1
  /\ clock' = t
  /\ items' = [items EXCEPT ![r] = list]
  /\ ts' = [ts EXCEPT ![r] = t]
  /\ db0' = [db0 EXCEPT ![r] = db]
  /\ IF Len(list) = 0 THEN Finish(r, "failed", "validate") ELSE Goto(r, "reconcile")
  /\ UNCHANGED <<db, batches, chunkNo, prev, nonWriterVars>>

\* a run begins while no other run is in progress
StartRun(r) ==
  /\ \A q \in Runners \ {r} : pc[q] = "idle"
  /\ \E list \in ItemLists, t \in Times : Begin(r, list, t)

\* the item lists of two runs that overlap: a alone, b alone, and a list
\* of two chunks with a in the first and b in both
OverlapLists ==
  { <<Item(JsString(IdA), NumField(1))>>,
    <<Item(JsString(IdB), NumField(2))>>,
    <<Item(JsString(IdA), NumField(1)), Item(JsString(IdB), NumField(2)),
      Item(JsString(IdB), NumField(2))>> }

\* OverlapStart with a lock: a run starts only when no other is in progress
OverlapStartExcluded(r) ==
  /\ \A q \in Runners \ {r} : pc[q] = "idle"
  /\ \E list \in OverlapLists, t \in Times : Begin(r, list, t)

\* index.js has no lock or lease: a trigger starts a run whatever the other
\* runs are doing
OverlapStart(r) ==
  \E list \in OverlapLists, t \in Times : Begin(r, list, t)

\* lines 237-293: read the current view and build the archival batches
ReconcileRead(r) ==
  /\ pc[r] = "reconcile"
  /\ \E ok \in BOOLEAN :
       IF ok
       THEN LET bs == ArchiveBatches(db.cur, items[r], ts[r])
            IN /\ batches' = [batches EXCEPT ![r] = bs]
               /\ Goto(r, IF bs = <<>> THEN "ptr_current" ELSE "archive")
       ELSE /\ Finish(r, "failed", "reconcile")
            /\ UNCHANGED batches
  /\ UNCHANGED <<db, clock, started, items, ts, chunkNo, db0, prev, nonWriterVars>>

\* lines 296-299: commit the next archival batch
ArchiveCommit(r) ==
  /\ pc[r] = "archive"
  /\ \E ok \in BOOLEAN :
       LET b == Head(batches[r])
       IN /\ db' = Commit(db, b, ok)
          /\ IF ok /\ CanCommit(db, b)
             THEN /\ batches' = [batches EXCEPT ![r] = Tail(@)]
                  /\ Goto(r, IF Len(batches[r]) = 1 THEN "ptr_current" ELSE "archive")
             ELSE /\ Finish(r, "failed", "archive")
                  /\ UNCHANGED batches
  /\ UNCHANGED <<clock, started, items, ts, chunkNo, db0, prev, nonWriterVars>>

\* one awaited set() of lines 58-115; it throws when the store refuses it
SetStep(r, at, next, d) ==
  /\ pc[r] = at
  /\ \E ok \in BOOLEAN :
       IF ok
       THEN db' = d /\ Goto(r, next)
       ELSE UNCHANGED db /\ Finish(r, "failed", at)
  /\ UNCHANGED <<clock, started, items, ts, batches, chunkNo, db0, prev, nonWriterVars>>

WriteCurrentPointer(r) ==
  SetStep(r, "ptr_current", "ptr_snapshots",
          SetPtr(db, "current", CurrentPointer(items[r], ts[r])))

WriteSnapshotsPointer(r) ==
  SetStep(r, "ptr_snapshots", "ptr_metadata",
          SetPtr(db, "snapshots", SnapshotsPointer(ts[r])))

WriteMetadata(r) ==
  SetStep(r, "ptr_metadata", "snap_items",
          SetPtr(db, "metadata", MetadataDoc(items[r], ts[r])))

WriteSnapshotItemsDoc(r) ==
  SetStep(r, "snap_items", "snap_summary",
          SetSnapDoc(db, formatTimestampForId(ts[r]), "items",
                     SnapshotItemsDoc(items[r], ts[r])))

WriteSnapshotSummary(r) ==
  SetStep(r, "snap_summary", "chunks",
          SetSnapDoc(db, formatTimestampForId(ts[r]), "summary",
                     SnapshotSummary(items[r], ts[r])))

\* lines 118-208: one turn of the chunk loop: validate the chunk, build its
\* batch and commit it
WriteChunk(r) ==
  /\ pc[r] = "chunks"
  /\ LET chunks == Chunks(items[r])
         chunk == chunks[chunkNo[r]]
     IN IF \E i \in 1..Len(chunk) : InvalidItemId(chunk[i])
        THEN /\ UNCHANGED <<db, chunkNo>>
             /\ Finish(r, "failed", "invalid_id")
        ELSE \E ok \in BOOLEAN :
               LET b == ChunkBatch(chunk, ts[r])
               IN /\ db' = Commit(db, b, ok)
                  /\ IF ok /\ CanCommit(db, b)
                     THEN IF chunkNo[r] = Len(chunks)
                          THEN UNCHANGED chunkNo /\ Finish(r, "done", "none")
                          ELSE /\ chunkNo' = [chunkNo EXCEPT ![r] = @ + 1]
                               /\ Goto(r, "chunks")
                     ELSE UNCHANGED chunkNo /\ Finish(r, "failed", "chunk")
  /\ UNCHANGED <<clock, started, items, ts, batches, db0, prev, nonWriterVars>>

\* the value writeInventorySnapshot returns
WriteResult(r) ==
  [success |-> TRUE, timestamp |-> ts[r], itemCount |-> Len(items[r]),
   snapshotId |-> formatTimestampForId(ts[r]),
   batchCount |-> Len(Chunks(items[r]))]

\* the caller has taken the result or the exception: the runner is free again
Settle(r, p) ==
  /\ pc[r] \in Settled
  /\ pc' = [pc EXCEPT ![r] = "idle"]
  /\ items' = [items EXCEPT ![r] = <<>>]
  /\ ts' = [ts EXCEPT ![r] = 0]
  /\ batches' = [batches EXCEPT ![r] = <<>>]
  /\ chunkNo' = [chunkNo EXCEPT ![r] = 1]
  /\ failStep' = [failStep EXCEPT ![r] = "none"]
  /\ db0' = [db0 EXCEPT ![r] = EmptyDb]
  /\ prev' = p
  /\ UNCHANGED <<db, clock, started, nonWriterVars>>

Return(r) == Settle(r, prev)

\* as Return, for an operator who runs the snapshot again with the same items
ReturnForRerun(r) ==
  Settle(r, [outcome |-> pc[r], step |-> failStep[r], chunk |-> chunkNo[r],
             items |-> items[r], db0 |-> db0[r]])

\* the operator's first run ...
FirstRun(r) ==
  /\ prev = NoPrev
  /\ StartRun(r)

\* ... and the re-run of the snapshot with the same item list
Rerun(r) ==
  /\ prev # NoPrev
  /\ \A q \in Runners \ {r} : pc[q] = "idle"
  /\ \E t \in Times : Begin(r, prev.items, t)

WriterSteps(r) ==
  \/ ReconcileRead(r)
  \/ ArchiveCommit(r)
  \/ WriteCurrentPointer(r)
  \/ WriteSnapshotsPointer(r)
  \/ WriteMetadata(r)
  \/ WriteSnapshotItemsDoc(r)
  \/ WriteSnapshotSummary(r)
  \/ WriteChunk(r)

(***************************************************************************)
(* fetchAllInventoryItems and fetchInventoryPage.                          *)
(***************************************************************************)
\* Math.ceil(a / b) for a >= 0
CeilDiv(a, b) == (a + b - 1) \div b

\* the page numbers the model can reach
Pages == 0..(CeilDiv(MaxTotal, PAGE_SIZE) - 1)

\* the totals a response body can carry in totalCount or total
Totals == { NumField(k) : k \in 0..MaxTotal }

\* the server: n items, numbered from 1; the body of a response is an
\* object (items under data or items, a total under totalCount, under total
\* or nowhere) or the bare array of the items
Servers ==
  { [n |-> n, body |-> "array", totalCount |-> NoNumField, total |-> NoNumField] :
      n \in 0..MaxServerItems }
  \cup
  { [n |-> n, body |-> "object", totalCount |-> tc, total |-> NoNumField] :
      n \in 0..MaxServerItems, tc \in Totals \cup {NoNumField} }
  \cup
  { [n |-> n, body |-> "object", totalCount |-> NoNumField, total |-> t] :
      n \in 0..MaxServerItems, t \in Totals }

NoServer == [n |-> 0, body |-> "array", totalCount |-> NoNumField, total |-> NoNumField]

\* the items the server returns for start and maxresults
ServerPage(n, start, maxResults) ==
  [i \in 1..Min(maxResults, IF n > start THEN n - start ELSE 0) |-> start + i]

\* a || b || 0 on two numeric fields
FirstTruthyOrZero(a, b) ==
  IF a.t = "number" /\ a.n # 0 THEN a.n
  ELSE IF b.t = "number" /\ b.n # 0 THEN b.n
  ELSE 0

\* lines 105-136: the value fetchInventoryPage resolves to on a 200 response
PageResult(srv, start, maxResults) ==
  LET totalCount == FirstTruthyOrZero(srv.totalCount, srv.total)
  IN [items |-> ServerPage(srv.n, start, maxResults),
      totalCount |-> totalCount,
      hasMore |-> (start + maxResults) < totalCount,
      currentStart |-> start]

NoResult == [items |-> <<>>, totalCount |-> 0, hasMore |-> FALSE, currentStart |-> 0]

\* PageChunks with every remaining page in one chunk
PageChunksInOne(nPages) ==
  IF nPages > 1 THEN <<[j \in 1..(nPages - 1) |-> j]>> ELSE <<>>

\* lines 31-37: the chunks of the remaining pages 1 .. totalPages - 1
PageChunks(nPages) ==
  [k \in 1..CeilDiv(IF nPages > 1 THEN nPages - 1 ELSE 0, CONCURRENT_REQUESTS) |->
     [j \in 1..Min(CONCURRENT_REQUESTS, nPages - 1 - (k - 1) * CONCURRENT_REQUESTS) |->
        (k - 1) * CONCURRENT_REQUESTS + j]]

\* the answers of the server or of the network to one request
Answers == {"200", "204", "429", "401", "500", "network"}

\* ErrorOf with every answer but 429 sending the task back to its request
ErrorOfRetry(answer) == IF answer = "429" THEN "rate_limit" ELSE "jitter"

\* the errors fetchInventoryPage throws, by answer (lines 138-164)
ErrorOf(answer) ==
  CASE answer = "429" -> "rate_limit"
    [] answer = "401" -> "auth"
    [] answer = "500" -> "api_error"
    [] answer = "network" -> "network"
    [] OTHER -> "request_failed"

Rejected == {"rate_limit", "auth", "api_error", "network", "request_failed"}

RECURSIVE ConcatItems(_, _)
\* lines 51-57: the items of the results of a chunk, in the chunk's order
ConcatItems(res, chunk) ==
  IF chunk = <<>> THEN <<>>
  ELSE res[Head(chunk)].items \o ConcatItems(res, Tail(chunk))

FetchInit ==
  /\ server = NoServer
  /\ fpc = "idle"
  /\ page = [p \in Pages |-> "none"]
  /\ requests = [p \in Pages |-> 0]
  /\ results = [p \in Pages |-> NoResult]
  /\ slept = [p \in Pages |-> 0]
  /\ allItems = <<>>
  /\ totalPages = 0
  /\ chunkIx = 0
  /\ ferror = "none"

\* the tasks of a chunk begin, each with its sleep of lines 41-44
StartChunk(chunk) ==
  page' = [p \in Pages |->
             IF \E j \in 1..Len(chunk) : chunk[j] = p THEN "jitter" ELSE page[p]]

\* line 21: fetchAllInventoryItems sends the request of the first page
FetchStart ==
  /\ fpc = "idle"
  /\ \E srv \in Servers : server' = srv
  /\ fpc' = "first"
  /\ page' = [page EXCEPT ![0] = "inflight"]
  /\ requests' = [requests EXCEPT ![0] = @ + 1]
  /\ UNCHANGED <<results, slept, allItems, totalPages, chunkIx, ferror, nonFetchVars>>

\* lines 44-45 and 101-103: the sleep of a page's task is over and
\* fetchInventoryPage sends the request
PageRequest(p) ==
  /\ page[p] = "jitter"
  /\ page' = [page EXCEPT ![p] = "inflight"]
  /\ requests' = [requests EXCEPT ![p] = @ + 1]
  /\ UNCHANGED <<server, fpc, results, slept, allItems, totalPages, chunkIx, ferror,
                 nonFetchVars>>

\* lines 103-164: the answer to a page's request: the task resolves, throws,
\* or, on 429, begins the sleep of line 151
PageAnswer(p) ==
  /\ page[p] = "inflight"
  /\ \E answer \in Answers :
       IF answer = "200"
       THEN /\ page' = [page EXCEPT ![p] = "resolved"]
            /\ results' = [results EXCEPT ![p] = PageResult(server, p * PAGE_SIZE, PAGE_SIZE)]
       ELSE /\ page' = [page EXCEPT ![p] =
                          IF answer = "429" THEN "throttled" ELSE ErrorOf(answer)]
            /\ UNCHANGED results
  /\ UNCHANGED <<server, fpc, requests, slept, allItems, totalPages, chunkIx, ferror,
                 nonFetchVars>>

\* lines 151-152: the sleep after a 429 is over and the task throws
ThrottleWaitOver(p) ==
  /\ page[p] = "throttled"
  /\ slept' = [slept EXCEPT ![p] = @ + THROTTLE_WAIT_MS]
  /\ page' = [page EXCEPT ![p] = ErrorOf("429")]
  /\ UNCHANGED <<server, fpc, requests, results, allItems, totalPages, chunkIx, ferror,
                 nonFetchVars>>

\* lines 22-40: the first page has resolved: the page count, the first items
\* and the chunks; without chunks the function returns
FirstPageResolved ==
  /\ fpc = "first"
  /\ page[0] = "resolved"
  /\ LET n == CeilDiv(results[0].totalCount, PAGE_SIZE)
         chunks == PageChunks(n)
     IN /\ totalPages' = n
        /\ allItems' = results[0].items
        /\ IF chunks = <<>>
           THEN fpc' = "done" /\ UNCHANGED <<page, chunkIx>>
           ELSE fpc' = "chunk" /\ chunkIx' = 1 /\ StartChunk(chunks[1])
  /\ UNCHANGED <<server, requests, results, slept, ferror, nonFetchVars>>

\* lines 21 and 68-70: the first page has thrown, and so does the function
FirstPageRejected ==
  /\ fpc = "first"
  /\ page[0] \in Rejected
  /\ fpc' = "failed"
  /\ ferror' = page[0]
  /\ UNCHANGED <<server, page, requests, results, slept, allItems, totalPages, chunkIx,
                 nonFetchVars>>

\* lines 48-66: every task of the chunk has resolved: its items are appended
\* in page order; after the last chunk the function returns
ChunkResolved ==
  /\ fpc = "chunk"
  /\ LET chunks == PageChunks(totalPages)
         chunk == chunks[chunkIx]
     IN /\ \A j \in 1..Len(chunk) : page[chunk[j]] = "resolved"
        /\ allItems' = allItems \o ConcatItems(results, chunk)
        /\ fpc' = IF chunkIx < Len(chunks) THEN "gap" ELSE "done"
  /\ UNCHANGED <<server, page, requests, results, slept, totalPages, chunkIx, ferror,
                 nonFetchVars>>

\* lines 48 and 68-70: a task of the chunk has thrown: Promise.all rejects
\* and the function throws, the other tasks of the chunk still running
ChunkRejected ==
  /\ fpc = "chunk"
  /\ LET chunk == PageChunks(totalPages)[chunkIx]
     IN \E j \in 1..Len(chunk) :
          /\ page[chunk[j]] \in Rejected
          /\ ferror' = page[chunk[j]]
  /\ fpc' = "failed"
  /\ UNCHANGED <<server, page, requests, results, slept, allItems, totalPages, chunkIx,
                 nonFetchVars>>

\* lines 60-62 and 40-46: the sleep between two chunks is over and the
\* tasks of the next chunk begin
NextChunk ==
  /\ fpc = "gap"
  /\ chunkIx' = chunkIx + 1
  /\ StartChunk(PageChunks(totalPages)[chunkIx + 1])
  /\ fpc' = "chunk"
  /\ UNCHANGED <<server, requests, results, slept, allItems, totalPages, ferror,
                 nonFetchVars>>

(***************************************************************************)
(* fetchProcessTransactions.                                               *)
(***************************************************************************)
\* the names logger.js exports
LoggerExports == {"logInfo", "logSuccess", "logError", "logStart", "logComplete"}

\* a call of a function destructured from require('../shared/logger')
\* returns when the module exports the name; otherwise the name is bound to
\* undefined and the call is a TypeError
LogCallReturns(name) == name \in LoggerExports

\* the process endpoint: n transactions, numbered from 1, and the body of a
\* response: the array under data, the bare array, or an object that holds
\* no array
TxServers ==
  { [n |-> n, body |-> b] : n \in 0..MaxServerItems, b \in {"data", "array", "other"} }

NoTxServer == [n |-> 0, body |-> "array"]

\* line 58 and line 68: data.data || data.items || data, and whether it is
\* an array
TxItemsIsArray(srv) == srv.body \in {"data", "array"}

\* the line-75 test with a non-empty page in place of a full page
TxHasMoreNonEmpty(srv, got) == TxItemsIsArray(srv) /\ Len(got) > 0

\* line 75
TxHasMore(srv, got) == TxItemsIsArray(srv) /\ Len(got) = PAGE_SIZE

\* the answers of the process endpoint or of the network to one request
TxAnswers == {"200", "429", "401", "500", "network"}

TxInit ==
  /\ txSrv = NoTxServer
  /\ txpc = "idle"
  /\ txStart = 0
  /\ txAll = <<>>
  /\ txRequests = <<>>
  /\ txStatus = "none"
  /\ txError = "none"

\* lines 16-44: the call enters the loop and sends the first request
TxBegin ==
  /\ txpc = "idle"
  /\ \E srv \in TxServers : txSrv' = srv
  /\ txpc' = "inflight"
  /\ txRequests' = Append(txRequests, txStart)
  /\ UNCHANGED <<txStart, txAll, txStatus, txError, nonTxVars>>

\* the call throws: lines 85-88
TxThrow(error) ==
  /\ txpc' = "failed"
  /\ txError' = error
  /\ UNCHANGED <<txStart, txAll, txRequests>>

\* lines 37-83: the answer to the request
TxAnswer ==
  /\ txpc = "inflight"
  /\ \E answer \in TxAnswers :
       /\ txStatus' = answer
       /\ CASE answer = "network" -> TxThrow("network")
            [] answer = "429" ->
                 \* lines 48-50 and 23-44: the warning is logged, then the
                 \* wait of 30 seconds and the same request again
                 IF LogCallReturns("logWarning")
                 THEN /\ txpc' = "inflight"
                      /\ txRequests' = Append(txRequests, txStart)
                      /\ UNCHANGED <<txStart, txAll, txError>>
                 ELSE TxThrow("type_error")
            [] answer \in {"401", "500"} -> TxThrow("api_error")
            [] OTHER ->
                 LET got == ServerPage(txSrv.n, txStart, PAGE_SIZE)
                 IN IF ~TxItemsIsArray(txSrv) /\ ~LogCallReturns("logWarning")
                    THEN \* line 71
                         TxThrow("type_error")
                    ELSE /\ txAll' = IF TxItemsIsArray(txSrv) THEN txAll \o got ELSE txAll
                         /\ txStart' = txStart + PAGE_SIZE
                         /\ txpc' = IF TxHasMore(txSrv, got) THEN "pause" ELSE "done"
                         /\ UNCHANGED <<txError, txRequests>>
  /\ UNCHANGED <<txSrv, nonTxVars>>

\* lines 82 and 23-44: the pause between two pages is over and the next
\* request is sent
TxNextPage ==
  /\ txpc = "pause"
  /\ txpc' = "inflight"
  /\ txRequests' = Append(txRequests, txStart)
  /\ UNCHANGED <<txSrv, txStart, txAll, txStatus, txError, nonTxVars>>

(***************************************************************************)
(* processInventoryItems and processInventoryItem.                         *)
(***************************************************************************)
\* the digits of Number.prototype.toString(36)
Digits36 ==
  <<"0", "1", "2", "3", "4", "5", "6", "7", "8", "9", "a", "b", "c", "d", "e",
    "f", "g", "h", "i", "j", "k", "l", "m", "n", "o", "p", "q", "r", "s", "t",
    "u", "v", "w", "x", "y", "z">>

RECURSIVE ToBase36(_)
\* n.toString(36) for n >= 0
ToBase36(n) ==
  IF n < Len(Digits36) THEN <<Digits36[n + 1]>>
  ELSE ToBase36(n \div Len(Digits36)) \o <<Digits36[(n % Len(Digits36)) + 1]>>

UpperCase ==
  {"A", "B", "C", "D", "E", "F", "G", "H", "I", "J", "K", "L", "M", "N", "O",
   "P", "Q", "R", "S", "T", "U", "V", "W", "X", "Y", "Z"}

\* the characters the class [a-zA-Z0-9_-] of line 825 holds
SafeChars == { Digits36[i] : i \in 1..Len(Digits36) } \cup UpperCase \cup {"_", "-"}

\* Sanitize that leaves the string as it is
SanitizeNothing(s) == s

\* line 825: itemId.replace(/[^a-zA-Z0-9_-]/g, '_')
Sanitize(s) == [i \in 1..Len(s) |-> IF s[i] \in SafeChars THEN s[i] ELSE "_"]

SkuPrefix == <<"s", "k", "u", "_">>
ItemPrefix == <<"i", "t", "e", "m", "_">>
Uncategorized ==
  <<"U", "n", "c", "a", "t", "e", "g", "o", "r", "i", "z", "e", "d">>

\* a raw record of the SOS API, or null
RawItem(id, sku, onhand, available, costBasis, category) ==
  [kind |-> "object", id |-> id, sku |-> sku, onhand |-> onhand,
   available |-> available, costBasis |-> costBasis, category |-> category]

RawNull ==
  [kind |-> "null", id |-> JsUndefined, sku |-> JsUndefined, onhand |-> NoNumField,
   available |-> NoNumField, costBasis |-> NoNumField, category |-> JsUndefined]

\* StatusOf with the test of available before the test of onHand
StatusOfAvailableFirst(onHand, available, costBasis) ==
  IF available < 0 THEN "NEGATIVE_AVAILABLE"
  ELSE IF onHand < 0 THEN "NEGATIVE_QUANTITY"
  ELSE IF costBasis < 0 THEN "NEGATIVE_VALUE"
  ELSE IF onHand > 0 /\ costBasis <= 0 THEN "NO_COST_BASIS"
  ELSE "OK"

\* lines 790-799
StatusOf(onHand, available, costBasis) ==
  IF onHand < 0 THEN "NEGATIVE_QUANTITY"
  ELSE IF available < 0 THEN "NEGATIVE_AVAILABLE"
  ELSE IF costBasis < 0 THEN "NEGATIVE_VALUE"
  ELSE IF onHand > 0 /\ costBasis <= 0 THEN "NO_COST_BASIS"
  ELSE "OK"

\* lines 805-806 and 809-810: a value that is truthy, a string, and not
\* blank
UsableString(v) == Truthy(v) /\ v.t = "string" /\ Trim(v.s) # <<>>

\* lines 827-837
CategoryOf(category) ==
  IF Truthy(category)
  THEN IF category.t = "string" THEN Trim(category.s)
       ELSE IF category.t = "number" THEN category.s
       ELSE Uncategorized
  ELSE <<>>

INVENTORY_STATUS ==
  {"OK", "NEGATIVE_QUANTITY", "NEGATIVE_AVAILABLE", "NEGATIVE_VALUE", "NO_COST_BASIS"}

\* what processInventoryItem returns when the mapping threw (lines 860-866)
MappingFailed == [ok |-> FALSE]

\* lines 779-867; timestamp is a Date or another value, rnd the characters
\* that Math.random().toString(36).substring(2, 8) gives
processInventoryItem(rawItem, timestamp, rnd) ==
  LET onHand == ParseFloatOrZero(rawItem.onhand)
      available == ParseFloatOrZero(rawItem.available)
      costBasis == ParseFloatOrZero(rawItem.costBasis)
      generated == ~UsableString(rawItem.id) /\ ~UsableString(rawItem.sku)
      itemId ==
        IF UsableString(rawItem.id) THEN Trim(rawItem.id.s)
        ELSE IF UsableString(rawItem.sku) THEN SkuPrefix \o Trim(rawItem.sku.s)
        ELSE ItemPrefix \o ToBase36(timestamp.ms) \o <<"_">> \o rnd
  IN IF generated /\ ~timestamp.isDate
     THEN \* line 814: timestamp.getTime is not a function
          MappingFailed
     ELSE IF Trim(itemId) = <<>>
     THEN \* lines 820-822
          MappingFailed
     ELSE [ok |-> TRUE,
           item |->
             [item_id |-> Sanitize(itemId),
              sku |-> IF Truthy(rawItem.sku) THEN rawItem.sku ELSE JsString(<<>>),
              qty_on_hand |-> onHand,
              qty_available |-> available,
              cost_basis |-> costBasis,
              category |-> CategoryOf(rawItem.category),
              status |-> StatusOf(onHand, available, costBasis),
              last_updated |-> timestamp,
              id_source |-> IF Truthy(rawItem.id) THEN "original_id"
                            ELSE IF Truthy(rawItem.sku) THEN "sku" ELSE "generated"]]

\* lines 872-876
calculateTotalValue(processedItems) ==
  SumSeq([i \in 1..Len(processedItems) |-> processedItems[i].cost_basis])

NoStatusCounts == [st \in INVENTORY_STATUS |-> 0]

RECURSIVE ProcessLoop(_, _, _, _, _)
\* lines 702-736: the loop over the raw items from index i, acc holding
\* processedItems, statusCounts and the length of invalidItems
ProcessLoop(list, timestamp, rnds, i, acc) ==
  IF i > Len(list) THEN acc
  ELSE LET rawItem == list[i]
           skip == [acc EXCEPT !.invalid = @ + 1]
       IN ProcessLoop(list, timestamp, rnds, i + 1,
            IF rawItem.kind = "null" THEN skip
            ELSE IF ~Truthy(rawItem.id) /\ ~Truthy(rawItem.sku) THEN skip
            ELSE LET p == processInventoryItem(rawItem, timestamp, rnds[i])
                 IN IF p.ok
                    THEN [acc EXCEPT !.items = Append(@, p.item),
                                     !.counts[p.item.status] = @ + 1]
                    ELSE skip)

\* what a call that threw leaves
Thrown(error) ==
  [threw |-> TRUE, error |-> error, items |-> <<>>, total_items |-> 0,
   total_value |-> 0, timestamp |-> [isDate |-> TRUE, ms |-> 0],
   status_counts |-> NoStatusCounts, invalid_items_count |-> 0]

NotCalled == Thrown("none")

\* lines 668-773; input is rawItems (an array or not) and fetchTimestamp,
\* now the value of new Date()
processInventoryItems(input, now, rnds) ==
  LET timestamp == IF input.fetchTimestamp.kind = "none"
                   THEN [isDate |-> TRUE, ms |-> now]
                   ELSE [isDate |-> input.fetchTimestamp.kind = "date",
                         ms |-> input.fetchTimestamp.ms]
  IN IF ~input.isArray THEN Thrown("not_array")
     ELSE IF Len(input.list) = 0 THEN Thrown("empty")
     ELSE IF input.list[1].kind = "null"
     THEN \* line 695: Object.keys(rawItems[0]) of null
          Thrown("type_error")
     ELSE LET acc == ProcessLoop(input.list, timestamp, rnds, 1,
                       [items |-> <<>>, counts |-> NoStatusCounts, invalid |-> 0])
          IN IF Len(acc.items) = 0 THEN Thrown("none_valid")
             ELSE [threw |-> FALSE, error |-> "none", items |-> acc.items,
                   total_items |-> Len(acc.items),
                   total_value |-> calculateTotalValue(acc.items),
                   timestamp |-> timestamp,
                   status_counts |-> acc.counts,
                   invalid_items_count |-> acc.invalid]

\* the values of the numeric fields of a raw record
NumVals == {NumField(0 - 1), NumField(0), NumField(1), NoNumField}

RawIds ==
  { JsString(<<"a">>), JsString(<<" ", "a", " ">>), JsString(<<"a", "/">>),
    JsString(<<"a", "_">>), JsString(<<" ">>), JsNumber(<<"7">>),
    JsNumber(<<"0">>), JsUndefined }

RawSkus ==
  { JsString(<<"a">>), JsString(<<" ", "x", "#">>), JsString(<<" ">>),
    JsNumber(<<"7">>), JsUndefined }

RawCategories ==
  { JsUndefined, JsString(<<"c", " ">>), JsString(<<" ">>), JsNumber(<<"5">>),
    JsNumber(<<"0">>), JsObject }

\* the raw records of the one-item lists: every id with every SKU and every
\* category, and every triple of numeric fields
RawItems ==
  { RawItem(id, sku, NumField(1), NumField(1), NumField(1), cat) :
      id \in RawIds, sku \in RawSkus, cat \in RawCategories }
  \cup
  { RawItem(JsString(<<"a">>), JsUndefined, o, a, c, JsUndefined) :
      o \in NumVals, a \in NumVals, c \in NumVals }
  \cup {RawNull}

\* the raw records of the longer lists
RawPool ==
  { RawNull,
    RawItem(JsString(<<"a">>), JsUndefined, NumField(1), NumField(1), NumField(1), JsUndefined),
    RawItem(JsString(<<"a", "/">>), JsUndefined, NumField(0 - 1), NumField(1), NumField(1), JsUndefined),
    RawItem(JsString(<<"a", "_">>), JsUndefined, NumField(1), NumField(1), NumField(0), JsUndefined),
    RawItem(JsNumber(<<"7">>), JsUndefined, NumField(1), NumField(1), NumField(1), JsUndefined),
    RawItem(JsUndefined, JsString(<<"a">>), NumField(1), NumField(0 - 1), NumField(1), JsUndefined),
    RawItem(JsUndefined, JsUndefined, NumField(1), NumField(1), NumField(1), JsUndefined) }

RawLists ==
  { <<r>> : r \in RawItems } \cup UNION { [1..n -> RawPool] : n \in 0..MaxRaw }

\* fetchTimestamp: absent, a Date, or a number of milliseconds
FetchTimestamps ==
  { [kind |-> "none", ms |-> 0], [kind |-> "date", ms |-> TickMs],
    [kind |-> "number", ms |-> TickMs] }

NoInput == [isArray |-> FALSE, list |-> <<>>, fetchTimestamp |-> [kind |-> "none", ms |-> 0]]

ProcInputs ==
  { [isArray |-> TRUE, list |-> l, fetchTimestamp |-> ft] :
      l \in RawLists, ft \in FetchTimestamps }
  \cup {NoInput}

RandomSuffixes == { <<"p", "3">>, <<"q", "4">> }

ProcInit ==
  /\ procpc = "idle"
  /\ procIn = NoInput
  /\ procOut = NotCalled
  /\ procPrev = NotCalled

\* a run calls processInventoryItems on the raw items it fetched
ProcessCall ==
  /\ procpc = "idle"
  /\ \E input \in ProcInputs, now \in Times :
       \E rnds \in [1..Len(input.list) -> RandomSuffixes] :
         /\ procIn' = input
         /\ procOut' = processInventoryItems(input, now, rnds)
  /\ procpc' = "called"
  /\ UNCHANGED <<procPrev, nonProcVars>>

\* the next run calls it on the same raw items
ProcessAgain ==
  /\ procpc = "called"
  /\ \E now \in Times :
       \E rnds \in [1..Len(procIn.list) -> RandomSuffixes] :
         procOut' = processInventoryItems(procIn, now, rnds)
  /\ procPrev' = procOut
  /\ procpc' = "again"
  /\ UNCHANGED <<procIn, nonProcVars>>

(***************************************************************************)
(* getCurrentInventoryData.                                                *)
(***************************************************************************)
\* the shape returned while nothing can be shown
EmptyState(lastUpdated) ==
  [success |-> TRUE, items |-> <<>>, totalItems |-> 0, totalValue |-> 0,
   lastUpdated |-> lastUpdated]

\* where('item_status', '==', 'active'): a document without the field
\* does not match
IsActive(doc) == "item_status" \in DOMAIN doc /\ doc.item_status = "active"

\* ActiveQuery without the where() filter
AllDocsQuery(cur) == SortIds(DOMAIN cur)

ActiveQuery(cur) ==
  SelectSeq(SortIds(DOMAIN cur), LAMBDA id : IsActive(cur[id]))

\* lines 314-495, on the store d; ok is whether the store answers the reads
getCurrentInventoryData(d, ok) ==
  IF ~ok
  THEN [success |-> FALSE, items |-> <<>>, totalItems |-> 0, totalValue |-> 0,
        lastUpdated |-> "none"]
  ELSE IF DOMAIN d.ptr = {} THEN EmptyState("none")
  ELSE IF "current" \notin DOMAIN d.ptr THEN EmptyState("none")
  ELSE IF "metadata" \notin DOMAIN d.ptr THEN EmptyState("none")
  ELSE LET ids == ActiveQuery(d.cur)
       IN IF ids = <<>>
          THEN EmptyState(d.ptr["metadata"].last_updated)
          ELSE [success |-> TRUE,
                items |-> [i \in 1..Len(ids) |-> [id |-> ids[i], data |-> d.cur[ids[i]]]],
                totalItems |-> Len(ids),
                totalValue |->
                  SumSeq([i \in 1..Len(ids) |-> d.cur[ids[i]].cost_basis]),
                lastUpdated |-> d.ptr["metadata"].last_updated]

(***************************************************************************)
(* The dashboard endpoint getInventoryDashboardData.                       *)
(***************************************************************************)
\* a.status of a document that may not carry the field
StatusField(doc) == IF "status" \in DOMAIN doc THEN doc.status ELSE "undefined"

\* item.cost_basis || 0 (line 963)
CostOrZero(doc) == IF "cost_basis" \in DOMAIN doc THEN doc.cost_basis ELSE 0

\* CompareForDisplay without the tests of the status
CompareByCostOnly(a, b) == CostOrZero(b.data) - CostOrZero(a.data)

\* the comparator of lines 953-964 of the unnamed source, on items of
\* currentData.data.items
CompareForDisplay(a, b) ==
  IF StatusField(a.data) # "OK" /\ StatusField(b.data) = "OK" THEN 0 - 1
  ELSE IF StatusField(a.data) = "OK" /\ StatusField(b.data) # "OK" THEN 1
  ELSE CostOrZero(b.data) - CostOrZero(a.data)

RECURSIVE InsertForDisplay(_, _)
InsertForDisplay(x, sorted) ==
  IF sorted = <<>> THEN <<x>>
  ELSE IF CompareForDisplay(x, Head(sorted)) < 0 THEN <<x>> \o sorted
  ELSE <<Head(sorted)>> \o InsertForDisplay(x, Tail(sorted))

RECURSIVE SortFrom(_, _)
SortFrom(list, sorted) ==
  IF list = <<>> THEN sorted
  ELSE SortFrom(Tail(list), InsertForDisplay(Head(list), sorted))

\* Array.prototype.sort with that comparator: a stable sort
sortItemsForDisplay(list) == SortFrom(list, <<>>)

\* the groups whose summary document a collection-group query on
\* 'summary' finds with its timestamp in the range
SummariesInRange(d, startDate, endDate) ==
  { g \in DOMAIN d.snapDocs :
      /\ "summary" \in DOMAIN d.snapDocs[g]
      /\ d.snapDocs[g]["summary"].timestamp >= startDate
      /\ d.snapDocs[g]["summary"].timestamp <= endDate }

RECURSIVE NewestFirst(_, _)
\* orderBy('timestamp', 'desc'), groups of equal timestamp in key order
NewestFirst(d, G) ==
  IF G = {} THEN <<>>
  ELSE LET g == CHOOSE x \in G :
                  \A y \in G \ {x} :
                    \/ d.snapDocs[x]["summary"].timestamp > d.snapDocs[y]["summary"].timestamp
                    \/ /\ d.snapDocs[x]["summary"].timestamp = d.snapDocs[y]["summary"].timestamp
                       /\ x < y
       IN <<g>> \o NewestFirst(d, G \ {g})

\* firestoreWriter.js lines 500-531, when the query succeeds
getInventoryHistory(d, startDate, endDate, limit) ==
  LET gs == NewestFirst(d, SummariesInRange(d, startDate, endDate))
  IN [i \in 1..Min(limit, Len(gs)) |->
        [id |-> "summary",
         timestamp |-> d.snapDocs[gs[i]]["summary"].timestamp,
         total_items |-> d.snapDocs[gs[i]]["summary"].total_items]]

NoCurrent ==
  [success |-> FALSE, items |-> <<>>, totalItems |-> 0, totalValue |-> 0,
   lastUpdated |-> "none"]

\* Response without the current data
ResponseWithoutCurrent(status, success, current, history) ==
  [status |-> status, success |-> success, current |-> NoCurrent,
   recent_history |-> history]

Response(status, success, current, history) ==
  [status |-> status, success |-> success, current |-> current,
   recent_history |-> history]

DashInit ==
  /\ dpc = "idle"
  /\ dmethod = "none"
  /\ dcurrent = NoCurrent
  /\ dhistory = 0
  /\ dresponses = <<>>

\* lines 106-118: a request arrives; a preflight is answered at once
DashRequest ==
  /\ dpc = "idle"
  /\ \E m \in {"GET", "POST", "OPTIONS"} :
       /\ dmethod' = m
       /\ IF m = "OPTIONS"
          THEN /\ dresponses' = Append(dresponses, Response(200, TRUE, NoCurrent, <<>>))
               /\ dpc' = "sent"
          ELSE /\ dpc' = "current"
               /\ UNCHANGED dresponses
  /\ UNCHANGED <<dcurrent, dhistory, writerVars, fetchVars, txVars, procVars, runVars, sortVars>>

\* lines 121-137: currentData arrives: a failure is answered with 500, the
\* items are sorted otherwise
DashCurrent ==
  /\ dpc = "current"
  /\ \E ok \in BOOLEAN :
       LET currentData == getCurrentInventoryData(db, ok)
       IN IF ~currentData.success
          THEN /\ dcurrent' = currentData
               /\ dresponses' = Append(dresponses, Response(500, FALSE, NoCurrent, <<>>))
               /\ dpc' = "sent"
          ELSE /\ dcurrent' = [currentData EXCEPT !.items = sortItemsForDisplay(@)]
               /\ dpc' = "history"
               /\ UNCHANGED dresponses
  /\ UNCHANGED <<dmethod, dhistory, writerVars, fetchVars, txVars, procVars, runVars, sortVars>>

\* lines 140-169: the history arrives or its query throws: the response is
\* 200 with the history or with none
DashHistory ==
  /\ dpc = "history"
  /\ dhistory' = dhistory + 1
  /\ \E ok \in BOOLEAN :
       dresponses' =
         Append(dresponses,
                Response(200, TRUE, dcurrent,
                         IF ok
                         THEN getInventoryHistory(db, clock - HISTORY_DAYS * MsPerDay,
                                                  clock, HISTORY_LIMIT)
                         ELSE <<>>))
  /\ dpc' = "sent"
  /\ UNCHANGED <<dmethod, dcurrent, writerVars, fetchVars, txVars, procVars, runVars, sortVars>>

\* the item lists of the run a dashboard request overlaps
DashLists == UNION { [1..n -> ItemPool] : n \in 1..MaxDashItems }

\* the one snapshot run of the dashboard's behaviours
DashStartRun(r) ==
  /\ started = 0
  /\ \E list \in DashLists : Begin(r, list, 0)

(***************************************************************************)
(* sortItemsForDisplay on its own.                                         *)
(***************************************************************************)
\* the items sortItemsForDisplay is called on: OK or not, with a negative,
\* a zero or a positive cost_basis, without cost_basis, without status
SortDocs ==
  { [status |-> st, cost_basis |-> c] : st \in {"OK", "NO_COST_BASIS"}, c \in {0 - 1, 0, 2} }
  \cup { [status |-> "OK"], [cost_basis |-> 1] }

SortInputs ==
  UNION { [1..n -> { [id |-> IdA, data |-> d] : d \in SortDocs }] : n \in 0..MaxSort }

SortInit ==
  /\ sortpc = "idle"
  /\ sortIn = <<>>
  /\ sortOut = <<>>

SortCall ==
  /\ sortpc = "idle"
  /\ \E list \in SortInputs :
       /\ sortIn' = list
       /\ sortOut' = sortItemsForDisplay(list)
  /\ sortpc' = "sorted"
  /\ UNCHANGED nonSortVars

\* the caller drops the result
SortForget ==
  /\ sortpc = "sorted"
  /\ sortpc' = "idle"
  /\ sortIn' = <<>>
  /\ sortOut' = <<>>
  /\ UNCHANGED nonSortVars

(***************************************************************************)
(* executeInventorySnapshot and its two triggers.                          *)
(***************************************************************************)
\* the processed items as the items writeInventorySnapshot receives
ToWriterItems(processed) ==
  [k \in 1..Len(processed) |->
     Item(JsString(processed[k].item_id), NumField(processed[k].cost_basis))]

\* what fetchAllInventoryItems gives executeInventorySnapshot: it throws, or
\* it returns the raw items, possibly none
RunFetches ==
  { [threw |-> TRUE, list |-> <<>>] }
  \cup { [threw |-> FALSE, list |-> l] : l \in UNION { [1..n -> RawPool] : n \in 0..MaxRaw } }

NoFetch == [threw |-> FALSE, list |-> <<>>]

\* the step of executeInventorySnapshot that threw, "none" when it returned
RunError ==
  IF rraw.threw THEN "fetch"
  ELSE IF Len(rraw.list) = 0 THEN "no_items"
  ELSE IF rproc.threw THEN rproc.error
  ELSE IF pc["r1"] = "failed" THEN failStep["r1"]
  ELSE "none"

NoData == [timestamp |-> 0, itemCount |-> 0, snapshotId |-> 0]

\* HttpAnswer with the success body whatever happened
HttpAnswerAlwaysSuccess(error, result) ==
  [kind |-> "response", status |-> 200, success |-> TRUE, error |-> "none",
   data |-> [timestamp |-> result.timestamp, itemCount |-> result.itemCount,
             snapshotId |-> result.snapshotId]]

\* index.js lines 37-62: the response of runInventorySnapshot
HttpAnswer(error, result) ==
  IF error = "none"
  THEN [kind |-> "response", status |-> 200, success |-> TRUE, error |-> "none",
        data |-> [timestamp |-> result.timestamp, itemCount |-> result.itemCount,
                  snapshotId |-> result.snapshotId]]
  ELSE [kind |-> "response", status |-> 500, success |-> FALSE, error |-> error,
        data |-> NoData]

\* index.js lines 80-96: scheduledInventorySnapshot returns the result or
\* throws the error again
ScheduledOutcome(error, result) ==
  IF error = "none"
  THEN [kind |-> "returned", status |-> 0, success |-> TRUE, error |-> "none",
        data |-> [timestamp |-> result.timestamp, itemCount |-> result.itemCount,
                  snapshotId |-> result.snapshotId]]
  ELSE [kind |-> "thrown", status |-> 0, success |-> FALSE, error |-> error,
        data |-> NoData]

RunInit ==
  /\ rpc = "idle"
  /\ rtrigger = "none"
  /\ rraw = NoFetch
  /\ rproc = NotCalled
  /\ rout = <<>>
  /\ rdb0 = EmptyDb

\* a trigger fires and executeInventorySnapshot calls fetchAllInventoryItems
\* (index.js lines 30-38, 72-81, 377-381)
RunTrigger ==
  /\ rpc = "idle"
  /\ started = 0
  /\ pc["r1"] = "idle"
  /\ \E tr \in {"http", "scheduled"} : rtrigger' = tr
  /\ rpc' = "fetch"
  /\ rdb0' = db
  /\ UNCHANGED <<rraw, rproc, rout, writerVars, nonRunVars>>

\* index.js lines 381-385: the fetch returns or throws; no items is an error
RunFetched ==
  /\ rpc = "fetch"
  /\ \E f \in RunFetches :
       /\ rraw' = f
       /\ rpc' = IF f.threw \/ Len(f.list) = 0 THEN "caught" ELSE "process"
  /\ UNCHANGED <<rtrigger, rproc, rout, rdb0, writerVars, nonRunVars>>

\* index.js line 389: processInventoryItems on the raw items, without a
\* fetchTimestamp
RunProcess ==
  /\ rpc = "process"
  /\ \E now \in Times : \E rnds \in [1..Len(rraw.list) -> RandomSuffixes] :
       LET out == processInventoryItems(
                    [isArray |-> TRUE, list |-> rraw.list,
                     fetchTimestamp |-> [kind |-> "none", ms |-> 0]], now, rnds)
       IN /\ rproc' = out
          /\ rpc' = IF out.threw THEN "caught" ELSE "write"
  /\ UNCHANGED <<rtrigger, rraw, rout, rdb0, writerVars, nonRunVars>>

\* index.js line 393: writeInventorySnapshot on the processed data
RunWrite ==
  /\ rpc = "write"
  /\ Begin("r1", ToWriterItems(rproc.items), rproc.timestamp.ms)

\* index.js lines 40-62 and 83-96: the trigger has the result or the error
\* of executeInventorySnapshot and answers
RunAnswer ==
  /\ \/ rpc = "caught"
     \/ rpc = "write" /\ pc["r1"] \in Settled
  /\ rout' = Append(rout, IF rtrigger = "http"
                          THEN HttpAnswer(RunError, WriteResult("r1"))
                          ELSE ScheduledOutcome(RunError, WriteResult("r1")))
  /\ rpc' = "answered"
  /\ UNCHANGED <<rtrigger, rraw, rproc, rdb0, writerVars, nonRunVars>>

\* writeInventorySnapshot called with items that are an empty array
\* (firestoreWriter.js lines 39-41)
WriteEmpty ==
  /\ rpc = "idle"
  /\ \E t \in Times : Begin("r1", <<>>, t)

\* writeInventorySnapshot called with items that are not an array
\* (firestoreWriter.js lines 35-37)
WriteNonArray ==
  /\ rpc = "idle"
  /\ pc["r1"] = "idle"
  /\ started < MaxRuns
  /\ started' = started + 1
  /\ db0' = [db0 EXCEPT !["r1"] = db]
  /\ Finish("r1", "failed", "not_array")
  /\ UNCHANGED <<db, clock, items, ts, batches, chunkNo, prev, nonWriterVars>>

vars == <<writerVars, fetchVars, txVars, procVars, dashVars, runVars, sortVars>>

Init == WriterInit /\ FetchInit /\ TxInit /\ ProcInit /\ DashInit /\ RunInit /\ SortInit

\* runs of writeInventorySnapshot, one after the other
Next ==
  \/ \E r \in SeqRunners : StartRun(r)
  \/ \E r \in SeqRunners : ReconcileRead(r)
  \/ \E r \in SeqRunners : ArchiveCommit(r)
  \/ \E r \in SeqRunners : WriteCurrentPointer(r)
  \/ \E r \in SeqRunners : WriteSnapshotsPointer(r)
  \/ \E r \in SeqRunners : WriteMetadata(r)
  \/ \E r \in SeqRunners : WriteSnapshotItemsDoc(r)
  \/ \E r \in SeqRunners : WriteSnapshotSummary(r)
  \/ \E r \in SeqRunners : WriteChunk(r)
  \/ \E r \in SeqRunners : Return(r)

Spec == Init /\ [][Next]_vars

\* a run, and then re-runs with the same item list
NextRerun ==
  \/ \E r \in SeqRunners : FirstRun(r)
  \/ \E r \in SeqRunners : Rerun(r)
  \/ \E r \in SeqRunners : ReconcileRead(r)
  \/ \E r \in SeqRunners : ArchiveCommit(r)
  \/ \E r \in SeqRunners : WriteCurrentPointer(r)
  \/ \E r \in SeqRunners : WriteSnapshotsPointer(r)
  \/ \E r \in SeqRunners : WriteMetadata(r)
  \/ \E r \in SeqRunners : WriteSnapshotItemsDoc(r)
  \/ \E r \in SeqRunners : WriteSnapshotSummary(r)
  \/ \E r \in SeqRunners : WriteChunk(r)
  \/ \E r \in SeqRunners : ReturnForRerun(r)

SpecRerun == Init /\ [][NextRerun]_vars

\* one call of fetchAllInventoryItems
NextFetch ==
  \/ FetchStart
  \/ \E p \in Pages : PageRequest(p)
  \/ \E p \in Pages : PageAnswer(p)
  \/ \E p \in Pages : ThrottleWaitOver(p)
  \/ FirstPageResolved
  \/ FirstPageRejected
  \/ ChunkResolved
  \/ ChunkRejected
  \/ NextChunk

SpecFetch == Init /\ [][NextFetch]_vars

\* one call of fetchProcessTransactions
NextTx ==
  \/ TxBegin
  \/ TxAnswer
  \/ TxNextPage

SpecTx == Init /\ [][NextTx]_vars

\* the same, every request being answered and every timer firing
SpecTxFair == Init /\ [][NextTx]_vars /\ WF_vars(NextTx)


\* two runs of writeInventorySnapshot that may overlap
NextOverlap ==
  \/ \E r \in Runners : OverlapStart(r)
  \/ \E r \in Runners : ReconcileRead(r)
  \/ \E r \in Runners : ArchiveCommit(r)
  \/ \E r \in Runners : WriteCurrentPointer(r)
  \/ \E r \in Runners : WriteSnapshotsPointer(r)
  \/ \E r \in Runners : WriteMetadata(r)
  \/ \E r \in Runners : WriteSnapshotItemsDoc(r)
  \/ \E r \in Runners : WriteSnapshotSummary(r)
  \/ \E r \in Runners : WriteChunk(r)

SpecOverlap == Init /\ [][NextOverlap]_vars

\* a call of processInventoryItems, and a second call on the same raw items
NextProcess ==
  \/ ProcessCall
  \/ ProcessAgain

SpecProcess == Init /\ [][NextProcess]_vars

\* calls of sortItemsForDisplay
NextSort == SortCall \/ SortForget

SpecSort == Init /\ [][NextSort]_vars

\* one trigger of the snapshot run, or one call of writeInventorySnapshot
\* with items it refuses
NextRun ==
  \/ RunTrigger
  \/ RunFetched
  \/ RunProcess
  \/ RunWrite
  \/ RunAnswer
  \/ WriteEmpty
  \/ WriteNonArray
  \/ ReconcileRead("r1")
  \/ ArchiveCommit("r1")
  \/ WriteCurrentPointer("r1")
  \/ WriteSnapshotsPointer("r1")
  \/ WriteMetadata("r1")
  \/ WriteSnapshotItemsDoc("r1")
  \/ WriteSnapshotSummary("r1")
  \/ WriteChunk("r1")

SpecRun == Init /\ [][NextRun]_vars

\* a dashboard request before, during or after a snapshot run
NextDash ==
  \/ DashRequest
  \/ DashCurrent
  \/ DashHistory
  \/ \E r \in SeqRunners : DashStartRun(r)
  \/ \E r \in SeqRunners : ReconcileRead(r)
  \/ \E r \in SeqRunners : ArchiveCommit(r)
  \/ \E r \in SeqRunners : WriteCurrentPointer(r)
  \/ \E r \in SeqRunners : WriteSnapshotsPointer(r)
  \/ \E r \in SeqRunners : WriteMetadata(r)
  \/ \E r \in SeqRunners : WriteSnapshotItemsDoc(r)
  \/ \E r \in SeqRunners : WriteSnapshotSummary(r)
  \/ \E r \in SeqRunners : WriteChunk(r)

SpecDash == Init /\ [][NextDash]_vars

(***************************************************************************)
(* Claims.                                                                 *)
(***************************************************************************)
\* the ids of a run's item list, as the strings that name documents
ItemIdsOf(list) ==
  { list[i].item_id.s : i \in { j \in 1..Len(list) : list[j].item_id.t = "string" } }

\* C1: after a run of writeInventorySnapshot has returned, with no other run
\* overlapping, every document that was in the current view before the run
\* is archived with archived_at equal to the run's timestamp when its id is
\* not among the run's item ids, and is active when it is among them.
C1_Reconciled ==
  \A r \in Runners :
    pc[r] = "done" =>
      \A d \in DOMAIN db0[r].cur :
        /\ d \in DOMAIN db.cur
        /\ IF d \in ItemIdsOf(items[r])
           THEN db.cur[d].item_status = "active"
           ELSE /\ db.cur[d].item_status = "archived"
                /\ "archived_at" \in DOMAIN db.cur[d]
                /\ db.cur[d].archived_at = ts[r]

\* a run has returned that archived a document which was active and made
\* active again a document which was archived
C1_Witness ==
  \E r \in Runners :
    /\ pc[r] = "done"
    /\ \E d \in DOMAIN db0[r].cur :
         /\ db0[r].cur[d].item_status = "archived"
         /\ d \in ItemIdsOf(items[r])
         /\ db.cur[d].item_status = "active"
    /\ \E d \in DOMAIN db0[r].cur :
         /\ db0[r].cur[d].item_status = "active"
         /\ d \notin ItemIdsOf(items[r])
         /\ db.cur[d].item_status = "archived"

\* C2: a second call of markCurrentItemsAsArchived with the same new-item
\* set, the view unchanged in between but for the set's own items, issues no
\* archival update: a re-run of a run that had finished its reconciliation
\* never has an archival batch to commit.
C2_SecondCallArchivesNothing ==
  \A r \in Runners :
    ( /\ prev.outcome \in Settled
      /\ prev.step \notin {"validate", "reconcile", "archive"}
      /\ items[r] = prev.items )
    => pc[r] # "archive"

\* a document as an archival update leaves it
ArchivedCopy(doc, timestamp) ==
  [f \in (DOMAIN doc) \cup {"item_status", "archived_at"} |->
     IF f = "item_status" THEN "archived"
     ELSE IF f = "archived_at" THEN timestamp
     ELSE doc[f]]

\* C3: no step of a run removes a document from the current view, and a
\* document whose id is not among the run's item ids is left as it is or is
\* changed in item_status ('archived') and archived_at only.
C3_NeverDeleted ==
  [][ /\ DOMAIN db.cur \subseteq DOMAIN db'.cur
      /\ \A r \in Runners :
           pc[r] \notin ({"idle"} \cup Settled) =>
             \A d \in (DOMAIN db.cur) \ ItemIdsOf(items[r]) :
               \/ db'.cur[d] = db.cur[d]
               \/ db'.cur[d] = ArchivedCopy(db.cur[d], ts[r]) ]_vars

\* a run that threw after it had archived an active document
C3_Witness ==
  \E r \in Runners :
    /\ pc[r] = "failed"
    /\ \E d \in (DOMAIN db0[r].cur) \ ItemIdsOf(items[r]) :
         /\ db0[r].cur[d].item_status = "active"
         /\ db.cur[d] = ArchivedCopy(db0[r].cur[d], ts[r])

ActiveIds(cur) == { d \in DOMAIN cur : cur[d].item_status = "active" }

RECURSIVE CostOf(_, _)
\* the sum of the cost_basis fields of the documents S of a view
CostOf(cur, S) ==
  IF S = {} THEN 0
  ELSE LET d == CHOOSE x \in S : TRUE
       IN cur[d].cost_basis + CostOf(cur, S \ {d})

\* C4: after a run has returned, getCurrentInventoryData returns exactly the
\* documents of the current view whose item_status is 'active', each once,
\* totalItems is their number and totalValue the sum of their cost_basis.
C4_ReadBack ==
  \A r \in Runners :
    pc[r] = "done" =>
      LET res == getCurrentInventoryData(db, TRUE)
          act == ActiveIds(db.cur)
      IN /\ res.success
         /\ { res.items[i].id : i \in 1..Len(res.items) } = act
         /\ Len(res.items) = Cardinality(act)
         /\ \A i \in 1..Len(res.items) : res.items[i].data = db.cur[res.items[i].id]
         /\ res.totalItems = Cardinality(act)
         /\ res.totalValue = CostOf(db.cur, act)

\* a run has returned, the view holds an archived document, and the read
\* returns the one active document with its cost of 2
C4_Witness ==
  \E r \in Runners :
    /\ pc[r] = "done"
    /\ \E d \in DOMAIN db.cur : db.cur[d].item_status = "archived"
    /\ getCurrentInventoryData(db, TRUE).totalItems = 1
    /\ getCurrentInventoryData(db, TRUE).totalValue = 2

\* C5: a snapshot group that exists when a run begins is not written by that
\* run: its summary, its items record and its per-item documents stay as
\* they were.
C5_SnapshotsImmutable ==
  \A r \in Runners :
    pc[r] # "idle" =>
      \A g \in (DOMAIN db0[r].snapDocs) \cup (DOMAIN db0[r].data) :
        /\ Sub(db.snapDocs, g) = Sub(db0[r].snapDocs, g)
        /\ Sub(db.data, g) = Sub(db0[r].data, g)

TimestampFields == {"last_updated", "archived_at"}

\* a current view without the timestamps of its documents
StripView(cur) ==
  [d \in DOMAIN cur |->
     [f \in (DOMAIN cur[d]) \ TimestampFields |-> cur[d][f]]]

\* the last item of a list that carries the id
LastWithId(list, id) ==
  list[CHOOSE i \in 1..Len(list) :
         /\ list[i].item_id = JsString(id)
         /\ \A j \in (i + 1)..Len(list) : list[j].item_id # JsString(id)]

\* the view, without timestamps, that one successful run over the list
\* leaves of the view cur: the items of the list active, the others archived
SingleRunView(cur, list) ==
  [d \in (DOMAIN cur) \cup ItemIdsOf(list) |->
     IF d \in ItemIdsOf(list)
     THEN [item_id |-> JsString(d),
           cost_basis |-> LET c == LastWithId(list, d).cost_basis
                          IN IF c.t = "number" THEN c.n ELSE 0,
           item_status |-> "active"]
     ELSE [f \in ((DOMAIN cur[d]) \cup {"item_status"}) \ TimestampFields |->
             IF f = "item_status" THEN "archived" ELSE cur[d][f]]]

\* C6: a run that returns leaves, timestamps apart, the view of one
\* successful run from the store it began with; and when it is the re-run,
\* with the same items, of a run that threw at a chunk, it leaves the view
\* of one successful run from the store the failed run began with.
C6_RerunConverges ==
  \A r \in Runners :
    pc[r] = "done" =>
      /\ StripView(db.cur) = SingleRunView(db0[r].cur, items[r])
      /\ (prev.outcome = "failed" /\ prev.step = "chunk" /\ items[r] = prev.items)
           => StripView(db.cur) = SingleRunView(prev.db0.cur, items[r])

\* the re-run has returned; the failed run had archived a document, had
\* written its first chunk and had thrown at the second
C6_Witness ==
  \E r \in Runners :
    /\ pc[r] = "done"
    /\ prev.outcome = "failed" /\ prev.step = "chunk" /\ prev.chunk = 2
    /\ items[r] = prev.items
    /\ \E d \in DOMAIN prev.db0.cur :
         /\ prev.db0.cur[d].item_status = "active"
         /\ d \notin ItemIdsOf(items[r])

\* the items of the chunks before chunk k, and those of chunk k and after
BeforeChunk(list, k) == SubSeq(list, 1, Min((k - 1) * BATCH_SIZE, Len(list)))
FromChunk(list, k) == SubSeq(list, (k - 1) * BATCH_SIZE + 1, Len(list))
TheChunk(list, k) ==
  SubSeq(list, (k - 1) * BATCH_SIZE + 1, Min(k * BATCH_SIZE, Len(list)))

\* the document of id d in the run's snapshot group and in the current view
\* is the one the run wrote
WrittenBy(r, d, store) ==
  LET g == formatTimestampForId(ts[r])
  IN /\ d \in DOMAIN store.cur
     /\ store.cur[d].item_status = "active"
     /\ store.cur[d].last_updated = ts[r]
     /\ g \in DOMAIN store.data
     /\ d \in DOMAIN store.data[g]
     /\ store.data[g][d] = store.cur[d]

\* the document of id d is in both views as it was in the store s0
Untouched(r, d, store, s0) ==
  LET g == formatTimestampForId(ts[r])
  IN /\ (d \in DOMAIN store.cur) = (d \in DOMAIN s0.cur)
     /\ (d \in DOMAIN store.cur) => (store.cur[d] = s0.cur[d])
     /\ (d \in DOMAIN Sub(store.data, g)) = (d \in DOMAIN Sub(s0.data, g))
     /\ (d \in DOMAIN Sub(store.data, g)) => (store.data[g][d] = s0.data[g][d])

\* C7: a turn of the chunk loop writes both documents of every item of the
\* chunk and nothing else, or it writes nothing and the run throws; in a
\* run that threw at chunk k the items of the chunks before k are written in
\* both views and the items of chunk k and after, unless an earlier chunk
\* carries their id, are in neither view other than as the run found them.
C7_ChunkAtomic ==
  /\ [][ \A r \in Runners :
           (pc[r] = "chunks" /\ (pc'[r] # "chunks" \/ chunkNo'[r] # chunkNo[r])) =>
             LET ids == ItemIdsOf(TheChunk(items[r], chunkNo[r]))
                 g == formatTimestampForId(ts[r])
             IN IF pc'[r] = "failed"
                THEN db' = db
                ELSE /\ \A d \in ids : WrittenBy(r, d, db')
                     /\ DOMAIN db'.cur = (DOMAIN db.cur) \cup ids
                     /\ DOMAIN db'.data[g] = (DOMAIN Sub(db.data, g)) \cup ids
                     /\ \A d \in (DOMAIN db'.cur) \ ids : Untouched(r, d, db', db)
                     /\ \A h \in (DOMAIN db'.data) \ {g} :
                          h \in DOMAIN db.data /\ db'.data[h] = db.data[h]
                     /\ db'.ptr = db.ptr /\ db'.snapDocs = db.snapDocs ]_vars
  /\ [](\A r \in Runners :
          (pc[r] = "failed" /\ failStep[r] \in {"chunk", "invalid_id"}) =>
            LET before == ItemIdsOf(BeforeChunk(items[r], chunkNo[r]))
                rest == ItemIdsOf(FromChunk(items[r], chunkNo[r])) \ before
            IN /\ \A d \in before : WrittenBy(r, d, db)
               /\ \A d \in rest : Untouched(r, d, db, db0[r]))

\* the commit of the second chunk failed: the item of the first chunk is
\* written, the item of the second chunk is in neither view
C7_Witness ==
  \E r \in Runners :
    /\ pc[r] = "failed" /\ failStep[r] = "chunk" /\ chunkNo[r] = 2
    /\ \E d \in ItemIdsOf(FromChunk(items[r], 2)) :
         /\ d \notin ItemIdsOf(BeforeChunk(items[r], 2))
         /\ d \notin DOMAIN db.cur
         /\ d \notin DOMAIN Sub(db.data, formatTimestampForId(ts[r]))

\* an item_id that is missing, is no string, or is blank
BadId(v) == v.t # "string" \/ \A i \in 1..Len(v.s) : v.s[i] = " "

IdValues ==
  { JsUndefined, JsNumber(<<"7">>), JsNumber(<<"0">>), JsString(<<>>),
    JsString(<<" ">>), JsString(<<" ", " ">>), JsString(IdA),
    JsString(<<" ", "a">>), JsString(<<"7">>) }

\* C8: the chunk loop rejects every item_id that is missing, is no string or
\* is blank, and a turn of the loop on a chunk with such an item throws and
\* writes nothing.
C8_InvalidIdAborts ==
  [][ /\ \A v \in IdValues : InvalidItemId(Item(v, NoNumField)) = BadId(v)
      /\ \A r \in Runners :
           ( /\ pc[r] = "chunks"
             /\ \E i \in 1..Len(TheChunk(items[r], chunkNo[r])) :
                  BadId(TheChunk(items[r], chunkNo[r])[i].item_id) )
           => (pc'[r] = "failed" /\ db' = db) ]_vars

\* a chunk of a valid and a blank item made the run throw, and the valid
\* item is in neither view
C8_Witness ==
  \E r \in Runners :
    /\ pc[r] = "failed" /\ failStep[r] = "invalid_id"
    /\ \E d \in ItemIdsOf(TheChunk(items[r], chunkNo[r])) :
         /\ Trim(d) # <<>>
         /\ d \notin DOMAIN db.cur
         /\ d \notin DOMAIN Sub(db.data, formatTimestampForId(ts[r]))

\* C9: a page's task that was answered 429 sleeps THROTTLE_WAIT_MS and then
\* sends the request of the same page again, and fetchAllInventoryItems
\* never throws because of a rate limit.
C9_RetriesAfterThrottle ==
  /\ [][ \A p \in Pages :
           (page[p] = "throttled" /\ page'[p] # "throttled") =>
             /\ slept'[p] = slept[p] + THROTTLE_WAIT_MS
             /\ page'[p] = "inflight"
             /\ requests'[p] = requests[p] + 1 ]_vars
  /\ [](fpc = "failed" => ferror # "rate_limit")

\* the server reports a total
HasTotal(srv) == srv.totalCount.t = "number" \/ srv.total.t = "number"

ReportedTotal(srv) ==
  IF srv.totalCount.t = "number" THEN srv.totalCount.n ELSE srv.total.n

RECURSIVE LastPageByRule(_, _, _)
\* the last page of a fetch that goes on, from page p with fetched items so
\* far, until a page is short or the fetched items reach the reported total
LastPageByRule(srv, p, fetched) ==
  LET got == Len(ServerPage(srv.n, p * PAGE_SIZE, PAGE_SIZE))
  IN IF got < PAGE_SIZE \/ (HasTotal(srv) /\ fetched + got >= ReportedTotal(srv))
     THEN p
     ELSE LastPageByRule(srv, p + 1, fetched + got)

RECURSIVE ItemsOfPages(_, _, _)
\* the server's items of the pages from .. to, in page order
ItemsOfPages(srv, from, to) ==
  IF from > to THEN <<>>
  ELSE ServerPage(srv.n, from * PAGE_SIZE, PAGE_SIZE) \o ItemsOfPages(srv, from + 1, to)

\* C10: when fetchAllInventoryItems returns it has requested page after page
\* up to the first page that was short or brought the fetched items to the
\* reported total, and no page after it, and it returns the items of these
\* pages in page order.
C10_FetchesUntilShortOrTotal ==
  fpc = "done" =>
    LET last == LastPageByRule(server, 0, 0)
    IN /\ { p \in Pages : requests[p] > 0 } = 0..last
       /\ allItems = ItemsOfPages(server, 0, last)

\* C11: after an answer of 429 fetchProcessTransactions has not thrown: it
\* has asked for the same start offset again, with start and the fetched
\* transactions as they were; after any other non-2xx answer it has thrown.
C11_RetriesOn429 ==
  /\ (txStatus = "429") =>
       /\ txpc = "inflight"
       /\ txRequests[Len(txRequests)] = txStart
       /\ Len(txRequests) >= 2
       /\ txRequests[Len(txRequests) - 1] = txStart
  /\ (txStatus \in {"401", "500"}) => (txpc = "failed")

\* the pages 0 .. k of the process endpoint, in order
TxPagesUpTo(srv, k) ==
  ItemsOfPages([n |-> srv.n], 0, k)

C13_StableIds ==
  (procpc = "again" /\ ~procOut.threw /\ ~procPrev.threw) =>
    /\ Len(procOut.items) = Len(procPrev.items)
    /\ \A k \in 1..Len(procPrev.items) :
         /\ procOut.items[k].item_id = procPrev.items[k].item_id
         /\ ~ShouldArchive(procPrev.items[k].item_id, ToWriterItems(procOut.items))

\* C14: no two items of the list a call of processInventoryItems returns
\* share an item_id.
C14_UniqueIds ==
  (procpc # "idle" /\ ~procOut.threw) =>
    \A i \in 1..Len(procOut.items) : \A j \in 1..Len(procOut.items) :
      (i # j) => (procOut.items[i].item_id # procOut.items[j].item_id)

\* a string with a character that is not a blank
NonBlankString(v) == v.t = "string" /\ \E i \in 1..Len(v.s) : v.s[i] # " "

\* id is the string wanted with every character outside [A-Za-z0-9_-]
\* replaced by an underscore
IsUnderscored(id, wanted) ==
  /\ Len(id) = Len(wanted)
  /\ \A i \in 1..Len(id) :
       id[i] = (IF wanted[i] \in SafeChars THEN wanted[i] ELSE "_")

\* the call returned an item for every raw item of its list
AllProcessed == procpc # "idle" /\ ~procOut.threw /\ Len(procOut.items) = Len(procIn.list)

\* C15: the item_id of a processed item is the trimmed source id when that
\* is a string with a non-blank character, else 'sku_' and the trimmed SKU
\* when that is such a string, else 'item_', the time in base 36, '_' and a
\* random suffix; in each case with every character outside [A-Za-z0-9_-]
\* replaced by an underscore, and never empty.
C15_IdPriority ==
  AllProcessed =>
    \A k \in 1..Len(procOut.items) :
      LET raw == procIn.list[k]
          id == procOut.items[k].item_id
      IN /\ id # <<>>
         /\ \A i \in 1..Len(id) : id[i] \in SafeChars
         /\ IF NonBlankString(raw.id) THEN IsUnderscored(id, Trim(raw.id.s))
            ELSE IF NonBlankString(raw.sku)
            THEN IsUnderscored(id, <<"s", "k", "u", "_">> \o Trim(raw.sku.s))
            ELSE \E rnd \in RandomSuffixes :
                   id = <<"i", "t", "e", "m", "_">>
                        \o ToBase36(procOut.timestamp.ms) \o <<"_">> \o rnd

\* a number as the id, a SKU with blanks around it and a character to
\* replace: the item_id is sku_x_
C15_Witness ==
  /\ AllProcessed
  /\ procIn.list[1].id.t = "number"
  /\ procIn.list[1].sku = JsString(<<" ", "x", "#">>)
  /\ procOut.items[1].item_id = <<"s", "k", "u", "_", "x", "_">>

\* the number a raw numeric field stands for
RawNumber(v) == IF v.t = "number" THEN v.n ELSE 0

\* C16: the status of a processed item is one of the five statuses and is
\* the first that applies of: on-hand < 0 NEGATIVE_QUANTITY, available < 0
\* NEGATIVE_AVAILABLE, cost-basis < 0 NEGATIVE_VALUE, on-hand > 0 with
\* cost-basis <= 0 NO_COST_BASIS, else OK.
C16_StatusByPriority ==
  AllProcessed =>
    \A k \in 1..Len(procOut.items) :
      LET it == procOut.items[k]
          onHand == RawNumber(procIn.list[k].onhand)
          available == RawNumber(procIn.list[k].available)
          costBasis == RawNumber(procIn.list[k].costBasis)
      IN /\ it.qty_on_hand = onHand /\ it.qty_available = available
         /\ it.cost_basis = costBasis
         /\ it.status \in
              {"OK", "NEGATIVE_QUANTITY", "NEGATIVE_AVAILABLE", "NEGATIVE_VALUE",
               "NO_COST_BASIS"}
         /\ (onHand < 0) => (it.status = "NEGATIVE_QUANTITY")
         /\ (onHand >= 0 /\ available < 0) => (it.status = "NEGATIVE_AVAILABLE")
         /\ (onHand >= 0 /\ available >= 0 /\ costBasis < 0) =>
              (it.status = "NEGATIVE_VALUE")
         /\ (onHand > 0 /\ available >= 0 /\ costBasis = 0) =>
              (it.status = "NO_COST_BASIS")
         /\ (onHand >= 0 /\ available >= 0 /\ costBasis >= 0
               /\ ~(onHand > 0 /\ costBasis <= 0)) => (it.status = "OK")

\* on-hand, available and cost-basis are all negative: NEGATIVE_QUANTITY
C16_Witness ==
  /\ AllProcessed
  /\ procOut.items[1].qty_on_hand < 0
  /\ procOut.items[1].qty_available < 0
  /\ procOut.items[1].cost_basis < 0
  /\ procOut.items[1].status = "NEGATIVE_QUANTITY"

\* the raw item is one the loop skips: null, without id and SKU, or one
\* whose mapping fails
IsSkipped(raw, input) ==
  \/ raw.kind = "null"
  \/ ~Truthy(raw.id) /\ ~Truthy(raw.sku)
  \/ /\ ~NonBlankString(raw.id) /\ ~NonBlankString(raw.sku)
     /\ input.fetchTimestamp.kind = "number"

\* the indices of the raw items that are not skipped
KeptIndices(input) ==
  { i \in 1..Len(input.list) : ~IsSkipped(input.list[i], input) }

RECURSIVE SumCounts(_, _)
SumCounts(counts, S) ==
  IF S = {} THEN 0
  ELSE LET st == CHOOSE x \in S : TRUE
       IN counts[st] + SumCounts(counts, S \ {st})

\* C17: processInventoryItems throws when its input is no array, is empty
\* or has no item that is not skipped; otherwise it returns one item for
\* every raw item that is not skipped, in input order, invalid_items_count
\* is the number of skipped raw items and the status counts sum to the
\* number of items.
C17_ThrowsOrReturnsProcessed ==
  (procpc # "idle") =>
    LET kept == KeptIndices(procIn)
    IN IF ~procIn.isArray \/ Len(procIn.list) = 0 \/ kept = {}
       THEN procOut.threw
       ELSE /\ ~procOut.threw
            /\ Len(procOut.items) = Cardinality(kept)
            /\ procOut.invalid_items_count = Len(procIn.list) - Cardinality(kept)
            /\ Len(procOut.items) + procOut.invalid_items_count = Len(procIn.list)
            /\ SumCounts(procOut.status_counts, DOMAIN procOut.status_counts)
                 = Len(procOut.items)
            /\ \A k \in 1..Len(procOut.items) :
                 \E i \in kept :
                   /\ Cardinality({ j \in kept : j < i }) = k - 1
                   /\ procOut.items[k].qty_on_hand = RawNumber(procIn.list[i].onhand)
                   /\ procOut.items[k].qty_available = RawNumber(procIn.list[i].available)
                   /\ procOut.items[k].cost_basis = RawNumber(procIn.list[i].costBasis)

\* the category the claim gives a raw category
CategoryByRule(category) ==
  IF category.t = "string" THEN Trim(category.s)
  ELSE IF category.t = "number" THEN category.s
  ELSE <<"U", "n", "c", "a", "t", "e", "g", "o", "r", "i", "z", "e", "d">>

\* C18: the category of a processed item is 'Uncategorized' when the raw
\* category is missing or is neither a string nor a number, the decimal
\* string of a number, and the trimmed string otherwise.
C18_CategoryDefault ==
  AllProcessed =>
    \A k \in 1..Len(procOut.items) :
      procOut.items[k].category = CategoryByRule(procIn.list[k].category)

\* the states of a page's task after an answer that is an error other
\* than 429
FailedAtOnce == {"auth", "api_error", "network", "request_failed"}

\* C19: a page request answered with 401 or another error that is not 429
\* makes fetchInventoryPage throw at once: one request for the page, no
\* wait, no request after it; fetchAllInventoryItems then cannot return,
\* only throw the error of a page that failed, whatever the other pages of
\* the chunk did.
C19_FailsWithoutRetry ==
  /\ [][\A p \in Pages :
          (page[p] = "inflight" /\ page'[p] \notin {"inflight", "resolved", "throttled"})
            => (page'[p] \in FailedAtOnce /\ requests' = requests /\ slept' = slept)]_vars
  /\ [][\A p \in Pages :
          (page[p] \in Rejected) => (page'[p] = page[p] /\ requests'[p] = requests[p])]_vars
  /\ [](\A p \in Pages :
          (page[p] \in FailedAtOnce) => (requests[p] = 1 /\ slept[p] = 0))
  /\ []((\E p \in Pages : page[p] \in Rejected) =>
          /\ fpc # "done"
          /\ fpc = "failed" \/ ENABLED (FirstPageRejected \/ ChunkRejected))
  /\ []((fpc = "failed") => (\E p \in Pages : page[p] \in Rejected /\ ferror = page[p]))

\* page 2 was answered 401 while page 1 of the same chunk resolved: the
\* function has thrown the authentication error
C19_Witness ==
  /\ fpc = "failed"
  /\ ferror = "auth"
  /\ page[1] = "resolved"
  /\ page[2] = "auth"
  /\ requests[2] = 1
  /\ allItems # <<>>

\* the history of the last seven days as the store holds it now
HistoryNow == getInventoryHistory(db, clock - 7 * 86400000, clock, 7)

\* C20: the dashboard endpoint sends exactly one response per request.
\* When getCurrentInventoryData reports failure the response is 500 with
\* success false and getInventoryHistory is not called; when it succeeded
\* the response is 200 with success true and the current data, with the
\* history or, when getInventoryHistory throws, with an empty
\* recent_history.
C20_HistoryFailureDegrades ==
  /\ [](Len(dresponses) = (IF dpc = "sent" THEN 1 ELSE 0))
  /\ [][(dpc = "sent") => (dresponses' = dresponses /\ dhistory' = dhistory)]_vars
  /\ [][(dpc = "current" /\ dpc' # "current" /\ ~dcurrent'.success) =>
          /\ dpc' = "sent"
          /\ dresponses'[1].status = 500
          /\ ~dresponses'[1].success
          /\ dhistory' = 0]_vars
  /\ [][(dpc = "current" /\ dpc' # "current" /\ dcurrent'.success) =>
          (dpc' = "history" /\ dresponses' = <<>>)]_vars
  /\ [][(dpc = "history" /\ dpc' # "history") =>
          /\ dpc' = "sent"
          /\ dhistory' = 1
          /\ dcurrent.success
          /\ dresponses'[1].status = 200
          /\ dresponses'[1].success
          /\ dresponses'[1].current = dcurrent
          /\ dresponses'[1].recent_history \in {<<>>, HistoryNow}]_vars
  /\ []((dpc = "sent" /\ dmethod # "OPTIONS" /\ dresponses[1].status = 500) =>
          (dhistory = 0 /\ ~dresponses[1].success))

\* the store holds a summary of the last seven days and current items, and
\* the response is 200 with success true, the current items and an empty
\* recent_history: getInventoryHistory has thrown
C20_Witness ==
  /\ dpc = "sent"
  /\ dhistory = 1
  /\ HistoryNow # <<>>
  /\ dresponses[1].status = 200
  /\ dresponses[1].success
  /\ dresponses[1].current.items # <<>>
  /\ dresponses[1].recent_history = <<>>

\* the ids of the current view that are not ids of the run's items
IdsToArchive(r) ==
  { id \in DOMAIN db.cur :
      \A i \in 1..Len(items[r]) : items[r][i].item_id # JsString(id) }

\* the places of the batches bs that hold an operation on id
PlacesOf(bs, id) ==
  { <<k, i>> \in (1..Len(bs)) \X (1..MaxItems + 2) :
      i <= Len(bs[k]) /\ bs[k][i].id = id }

RECURSIVE Flatten(_)
Flatten(seqs) == IF seqs = <<>> THEN <<>> ELSE Head(seqs) \o Flatten(Tail(seqs))

\* C24: the chunks of writeInventorySnapshot are the item list cut in order
\* into groups of at least one and at most BATCH_SIZE items, and the batch
\* committed for a chunk of c items holds exactly 2*c writes, so at most
\* 2 * BATCH_SIZE (500 for the 250 of the code).
C24_ChunkBatchesBounded ==
  /\ [](\A r \in Runners :
          (pc[r] \notin {"idle", "failed"}) =>
            LET chunks == Chunks(items[r])
            IN /\ Flatten(chunks) = items[r]
               /\ \A k \in 1..Len(chunks) :
                    /\ Len(chunks[k]) >= 1
                    /\ Len(chunks[k]) <= BATCH_SIZE
                    /\ (k < Len(chunks)) => (Len(chunks[k]) = BATCH_SIZE))
  /\ [][\A r \in Runners :
          (pc[r] = "chunks" /\ pc'[r] # "failed") =>
            LET first == (chunkNo[r] - 1) * BATCH_SIZE + 1
                last == IF chunkNo[r] * BATCH_SIZE < Len(items[r])
                        THEN chunkNo[r] * BATCH_SIZE ELSE Len(items[r])
                b == ChunkBatch(Chunks(items[r])[chunkNo[r]], ts[r])
            IN /\ Len(b) = 2 * (last - first + 1)
               /\ Len(b) <= 2 * BATCH_SIZE
               /\ \A i \in first..last :
                    Cardinality({ j \in 1..Len(b) :
                                    b[j].kind = "set" /\ b[j].id = items[r][i].item_id.s })
                      >= 2
               /\ db' = ApplyBatch(db, b)
               /\ IF last = Len(items[r]) THEN pc'[r] = "done"
                  ELSE pc'[r] = "chunks" /\ chunkNo'[r] = chunkNo[r] + 1]_vars

\* a list of three items: the first chunk of two is committed, the second
\* of one is next
C24_Witness ==
  /\ pc["r1"] = "chunks"
  /\ Len(items["r1"]) = BATCH_SIZE + 1
  /\ chunkNo["r1"] = 2
  /\ db # db0["r1"]

\* every document to archive of r's run carries the run's archival
ArchivalDone(r) ==
  \A id \in IdsToArchive(r) :
    /\ db.cur[id].item_status = "archived"
    /\ db.cur[id].archived_at = ts[r]

\* the pointer documents and the snapshot documents of r's run are written
PointersDone(r) ==
  /\ DOMAIN db.ptr = {"current", "snapshots", "metadata"}
  /\ db.ptr["current"].last_updated = ts[r]
  /\ db.ptr["current"].item_count = Len(items[r])
  /\ db.ptr["snapshots"].last_snapshot = ts[r]
  /\ db.ptr["metadata"].last_updated = ts[r]
  /\ db.ptr["metadata"].total_item_count = Len(items[r])

SnapshotDocsDone(r) ==
  /\ ts[r] \div 1000 \in DOMAIN db.snapDocs
  /\ DOMAIN db.snapDocs[ts[r] \div 1000] = {"items", "summary"}
  /\ db.snapDocs[ts[r] \div 1000]["items"].timestamp = ts[r]
  /\ db.snapDocs[ts[r] \div 1000]["summary"].timestamp = ts[r]

\* the order of the writes of one run: a step of the reconciliation changes
\* documents to archive only; a pointer is written after the archival, the
\* snapshot's documents after the pointers, the chunks after those
WriteOrder ==
  \A r \in Runners :
    /\ (pc[r] \in {"reconcile", "archive"}) =>
         /\ db'.ptr = db.ptr /\ db'.snapDocs = db.snapDocs /\ db'.data = db.data
         /\ DOMAIN db'.cur = DOMAIN db.cur
         /\ \A id \in DOMAIN db.cur \ IdsToArchive(r) : db'.cur[id] = db.cur[id]
    /\ (pc[r] \in {"ptr_current", "ptr_snapshots", "ptr_metadata"}) =>
         /\ ArchivalDone(r)
         /\ db'.cur = db.cur /\ db'.snapDocs = db.snapDocs /\ db'.data = db.data
         /\ db.snapDocs = db0[r].snapDocs /\ db.data = db0[r].data
         /\ \A n \in DOMAIN db.ptr :
              (db'.ptr[n] # db.ptr[n]) =>
                n = (CASE pc[r] = "ptr_current" -> "current"
                       [] pc[r] = "ptr_snapshots" -> "snapshots"
                       [] OTHER -> "metadata")
    /\ (pc[r] \in {"snap_items", "snap_summary"}) =>
         /\ ArchivalDone(r) /\ PointersDone(r)
         /\ db'.cur = db.cur /\ db'.ptr = db.ptr /\ db'.data = db.data
         /\ db.data = db0[r].data
    /\ (pc[r] = "chunks") =>
         /\ PointersDone(r) /\ SnapshotDocsDone(r)
         /\ db'.ptr = db.ptr /\ db'.snapDocs = db.snapDocs
         /\ \A id \in DOMAIN db.cur :
              (db'.cur[id] # db.cur[id]) =>
                \E i \in (chunkNo[r] - 1) * BATCH_SIZE + 1 .. chunkNo[r] * BATCH_SIZE :
                  i <= Len(items[r]) /\ items[r][i].item_id = JsString(id)

\* a run of r has thrown in its reconciliation
ReconciliationFailed(r) ==
  pc[r] = "failed" /\ failStep[r] \in {"reconcile", "archive"}

\* the pointer documents and the snapshots are as the run found them
ViewsUntouched(r) ==
  /\ db.ptr = db0[r].ptr
  /\ db.snapDocs = db0[r].snapDocs
  /\ db.data = db0[r].data
  /\ DOMAIN db.cur = DOMAIN db0[r].cur

\* C25, its last clause as stated: a failure in the reconciliation leaves
\* the pointer documents, the snapshots and every active item untouched.
C25_FailureLeavesActiveUntouched ==
  \A r \in Runners :
    ReconciliationFailed(r) =>
      /\ ViewsUntouched(r)
      /\ \A id \in DOMAIN db0[r].cur :
           (db0[r].cur[id].item_status = "active") => (db.cur[id] = db0[r].cur[id])

\* C25, amended: the writes of a run come in the order archival batches,
\* pointer documents, snapshot documents, item chunks; a failure in the reconciliation
\* leaves the pointer documents, the snapshots and every document of an
\* item of the new set untouched, while a document to archive is either
\* untouched or archived by a batch committed before the failure.
C25_OrderAndNewSetUntouched ==
  /\ [][WriteOrder]_vars
  /\ [](\A r \in Runners :
          ReconciliationFailed(r) =>
            /\ ViewsUntouched(r)
            /\ \A id \in DOMAIN db0[r].cur :
                 IF \E i \in 1..Len(items[r]) : items[r][i].item_id = JsString(id)
                 THEN db.cur[id] = db0[r].cur[id]
                 ELSE \/ db.cur[id] = db0[r].cur[id]
                      \/ db.cur[id] =
                           [f \in DOMAIN db0[r].cur[id] \cup {"item_status", "archived_at"} |->
                              IF f = "item_status" THEN "archived"
                              ELSE IF f = "archived_at" THEN ts[r]
                              ELSE db0[r].cur[id][f]])

\* the second archival batch has failed after the first was committed: an
\* item that was active is archived and the run has thrown
C25_Witness ==
  /\ ReconciliationFailed("r1")
  /\ \E id \in DOMAIN db0["r1"].cur :
       /\ db0["r1"].cur[id].item_status = "active"
       /\ db.cur[id].item_status = "archived"
  /\ ViewsUntouched("r1")

\* the pages whose request is in flight
InFlight == { p \in Pages : page[p] = "inflight" }

\* the number of the chunk of page p >= 1, CONCURRENT_REQUESTS (3) pages
\* to a chunk
ChunkOfPage(p) == (p + 2) \div 3

\* C26: at most CONCURRENT_REQUESTS page requests are in flight at any
\* time; until the first page has resolved no other page is requested; and
\* a page of chunk k+1 is requested only when every page of chunk k has
\* resolved.
C26_BoundedFanOut ==
  /\ Cardinality(InFlight) <= 3
  /\ (fpc \in {"idle", "first"}) => (\A p \in Pages \ {0} : requests[p] = 0)
  /\ \A p \in Pages \ {0} :
       (requests[p] > 0) =>
         /\ page[0] = "resolved"
         /\ \A q \in Pages \ {0} :
              (ChunkOfPage(q) < ChunkOfPage(p)) => (page[q] = "resolved")
  /\ \A p \in Pages : (page[p] = "inflight") => (fpc \in {"first", "chunk", "failed"})

\* the three requests of the first chunk are in flight together
C26_Witness ==
  /\ fpc = "chunk"
  /\ chunkIx = 1
  /\ InFlight = {1, 2, 3}
  /\ totalPages = 5

\* C27: no run waits for another: a trigger can start a run whatever the
\* other run is doing, and every step of a run (the reconciliation's read,
\* each archival batch, each pointer write, each chunk commit) can be taken
\* whatever the position of the other run, one batch at a time.
C27_NotMutuallyExcluded ==
  /\ [](\A r \in Runners :
          /\ (pc[r] = "idle" /\ started < MaxRuns) => ENABLED OverlapStart(r)
          /\ (pc[r] = "reconcile") => ENABLED ReconcileRead(r)
          /\ (pc[r] = "archive") => ENABLED ArchiveCommit(r)
          /\ (pc[r] = "ptr_current") => ENABLED WriteCurrentPointer(r)
          /\ (pc[r] = "chunks") => ENABLED WriteChunk(r))
  /\ [][\A r \in Runners :
          (pc[r] = "archive" /\ batches'[r] # batches[r]) =>
            (db' = ApplyBatch(db, Head(batches[r])))]_vars
  /\ [][\A r \in Runners :
          (pc[r] = "chunks" /\ (chunkNo'[r] # chunkNo[r] \/ pc'[r] = "done")) =>
            (db' = ApplyBatch(db, ChunkBatch(Chunks(items[r])[chunkNo[r]], ts[r])))]_vars

\* both runs have returned, r1 last (b, the last item of both, carries the
\* time of r1); item a is in the item set of r1 and is archived
C27_Witness ==
  /\ pc["r1"] = "done" /\ pc["r2"] = "done"
  /\ ts["r1"] # ts["r2"]
  /\ items["r1"][Len(items["r1"])].item_id = JsString(IdB)
  /\ items["r2"][Len(items["r2"])].item_id = JsString(IdB)
  /\ db.cur[IdB].last_updated = ts["r1"]
  /\ \E i \in 1..Len(items["r1"]) : items["r1"][i].item_id = JsString(IdA)
  /\ db.cur[IdA].item_status = "archived"

\* the documents of the current view with item_status 'active'
ActiveDocs == { id \in DOMAIN db.cur : db.cur[id].item_status = "active" }

\* no run of writeInventorySnapshot is in progress
NoRunInProgress == \A r \in Runners : pc[r] \in {"idle", "done", "failed"}

\* C28: whenever no run is in progress, item_count of inventory/current and
\* total_item_count of inventory/metadata are the number of documents of
\* the current view with item_status 'active'.
C28_CountsMatchActive ==
  (NoRunInProgress /\ DOMAIN db.ptr # {}) =>
    /\ db.ptr["current"].item_count = Cardinality(ActiveDocs)
    /\ db.ptr["metadata"].total_item_count = Cardinality(ActiveDocs)

\* C29: a document of the current view has the field archived_at exactly
\* when its item_status is 'archived'.
C29_ArchivedAtIffArchived ==
  \A id \in DOMAIN db.cur :
    ("archived_at" \in DOMAIN db.cur[id]) <=> (db.cur[id].item_status = "archived")

\* a run has written an item that was archived when the run began: the
\* document is active and has no archived_at
C29_Witness ==
  \E r \in Runners : \E id \in DOMAIN db0[r].cur :
    /\ pc[r] = "done"
    /\ db0[r].cur[id].item_status = "archived"
    /\ "archived_at" \in DOMAIN db0[r].cur[id]
    /\ db.cur[id].item_status = "active"
    /\ "archived_at" \notin DOMAIN db.cur[id]

\* executeInventorySnapshot threw: in the fetch, for want of items, in the
\* processing or in the write
RunThrew ==
  \/ rraw.threw
  \/ Len(rraw.list) = 0
  \/ rproc.threw /\ rproc.error # "none"
  \/ pc["r1"] = "failed"

\* C21: a trigger answers once. When a step of the run threw, the HTTP
\* trigger answers 500 with success false and the error, never the success
\* body, and the scheduled trigger throws the error again; when the run
\* returned, the HTTP trigger answers 200 with success true and the
\* timestamp, itemCount and snapshotId of writeInventorySnapshot.
C21_TriggerAnswers ==
  /\ (rpc # "answered") => (rout = <<>>)
  /\ (rpc = "answered") =>
       /\ Len(rout) = 1
       /\ rout[1].kind = (IF rtrigger = "http" THEN "response"
                          ELSE IF RunThrew THEN "thrown" ELSE "returned")
       /\ IF RunThrew
          THEN /\ ~rout[1].success
               /\ rout[1].error # "none"
               /\ (~rraw.threw /\ Len(rraw.list) > 0 /\ rproc.threw) =>
                    (rout[1].error = rproc.error)
               /\ (pc["r1"] = "failed") => (rout[1].error = failStep["r1"])
               /\ (rtrigger = "http") => (rout[1].status = 500)
          ELSE /\ pc["r1"] = "done"
               /\ rout[1].success
               /\ (rtrigger = "http") => (rout[1].status = 200)
               /\ rout[1].data.timestamp = rproc.timestamp.ms
               /\ rout[1].data.itemCount = Len(rproc.items)
               /\ rout[1].data.snapshotId = rproc.timestamp.ms \div 1000

\* the write threw in its chunk loop, after it changed the store, and the
\* HTTP trigger answered 500
C21_Witness ==
  /\ rpc = "answered"
  /\ rtrigger = "http"
  /\ pc["r1"] = "failed"
  /\ failStep["r1"] = "chunk"
  /\ db # rdb0
  /\ rout[1].status = 500

\* C30: a run that throws before the reconciliation leaves the store as it
\* was: executeInventorySnapshot when the fetch throws or returns no items
\* or the processing throws (writeInventorySnapshot is then never called),
\* and writeInventorySnapshot when its items are not a non-empty array.
C30_EarlyFailureChangesNothing ==
  /\ ((rpc \in {"caught", "answered"}) /\ (rraw.threw \/ Len(rraw.list) = 0 \/ rproc.threw)) =>
       (db = rdb0 /\ started = 0 /\ pc["r1"] = "idle")
  /\ (pc["r1"] = "failed" /\ failStep["r1"] \in {"validate", "not_array"}) =>
       (db = db0["r1"] /\ batches["r1"] = <<>>)
  /\ (rpc \in {"fetch", "process", "caught"}) => (db = rdb0)

\* the processing threw over a store that holds documents, the trigger has
\* answered and the store is as it was
C30_Witness ==
  /\ rpc = "answered"
  /\ rproc.threw
  /\ rproc.error = "none_valid"
  /\ rdb0 # EmptyDb
  /\ db = rdb0

\* an item counts as OK when it has the status OK
IsOkItem(x) == "status" \in DOMAIN x.data /\ x.data.status = "OK"

\* its cost_basis, 0 when it has none
CostOfItem(x) == IF "cost_basis" \in DOMAIN x.data THEN x.data.cost_basis ELSE 0

\* how often x occurs in the list
Occurrences(list, x) == Cardinality({ i \in 1..Len(list) : list[i] = x })

\* C22: what sortItemsForDisplay returns is a permutation of its input in
\* which every item that is not OK comes before every item that is OK, and
\* in which, among the items that are not OK and among those that are, the
\* cost_basis never increases (no cost_basis counting as 0).
C22_SortedForDisplay ==
  (sortpc = "sorted") =>
    /\ Len(sortOut) = Len(sortIn)
    /\ \A i \in 1..Len(sortIn) :
         Occurrences(sortOut, sortIn[i]) = Occurrences(sortIn, sortIn[i])
    /\ \A i \in 1..Len(sortOut) : \A j \in 1..Len(sortOut) :
         (i < j) =>
           /\ ~(IsOkItem(sortOut[i]) /\ ~IsOkItem(sortOut[j]))
           /\ (IsOkItem(sortOut[i]) = IsOkItem(sortOut[j])) =>
                (CostOfItem(sortOut[i]) >= CostOfItem(sortOut[j]))

\* an OK item of cost 2, an item without status and an item that is not OK
\* of cost 2: the result has the two that are not OK first, by cost
C22_Witness ==
  /\ sortpc = "sorted"
  /\ sortIn = << [id |-> <<"a">>, data |-> [status |-> "OK", cost_basis |-> 2]],
                 [id |-> <<"a">>, data |-> [cost_basis |-> 1]],
                 [id |-> <<"a">>, data |-> [status |-> "NO_COST_BASIS", cost_basis |-> 2]] >>
  /\ sortOut = << sortIn[3], sortIn[2], sortIn[1] >>

====
